---- MODULE Spec2Model ----
(***************************************************************************)
(* leport: the reversible action journal (impl/pkg.py), the registry store *)
(* (impl/db.py), the install / remove engines built on them, and the build *)
(* command (main.py build, impl/pkgbuild.py).                              *)
(*                                                                         *)
(* A path is a sequence of path components; <<>> is "/".  The filesystem   *)
(* is a function from the paths that exist to their directory entries.     *)
(***************************************************************************)
EXTENDS Integers, Sequences, FiniteSets, TLC

VARIABLES
    fs,      \* the filesystem: path -> [kind, data, mode, uid, gid]
    jr,      \* ReversibleFileActions._actions of the journal in scope
    jopen,   \* TRUE between __enter__ and __exit__ of the journal scope
    jout,    \* what the last __exit__ did: [typ, before, log, surfaced]
    snap,    \* the filesystem as it was at __enter__
    db,      \* the registry database: [tables, index, pkgs, files, dirs]
    last,    \* the last command run and how it ended
    bld      \* the build command in progress: its inputs, its position, its results;
             \* under SpecRoot the command-line invocation in progress

vars == <<fs, jr, jopen, jout, snap, db, last, bld>>

----------------------------------------------------------------------------
(* Bounds *)

\* longest journal the journal specification builds
MaxActions == 3
\* how many candidate names temp_direntry may try in one directory
NumTemps == 3

\* commands in one run
MaxCommands == 4

TempNames == <<"t1", "t2", "t3", "t4", "t5">>

----------------------------------------------------------------------------
(* Host ids and permission bits *)

RootUid == 0
RootGid == 0
LeportGid == 50
\* -1 is os.chown's "leave unchanged"
Unchanged == 0 - 1

\* mode_mask = S_IRWXU | S_IRWXG | S_IRWXO
mode_mask == 511
\* 0o777 & ~umask, umask = 0o666 - 0o664 (main.py _pre_command)
DefaultDirMode == 509
DefaultFileMode == 436

----------------------------------------------------------------------------
(* The filesystem *)

Root == <<>>

Range(s) == {s[i] : i \in 1..Len(s)}

File(data, mode, uid, gid) ==
    [kind |-> "file", data |-> data, mode |-> mode, uid |-> uid, gid |-> gid]

Dir(mode, uid, gid) ==
    [kind |-> "dir", data |-> "-", mode |-> mode, uid |-> uid, gid |-> gid]

Parent(p) == SubSeq(p, 1, Len(p) - 1)

IsPrefix(p, q) == Len(p) <= Len(q) /\ SubSeq(q, 1, Len(p)) = p

exists(f, p) == p \in DOMAIN f

is_dir(f, p) == p \in DOMAIN f /\ f[p].kind = "dir"

is_file(f, p) == p \in DOMAIN f /\ f[p].kind = "file"

\* p and everything below it
Under(f, p) == {q \in DOMAIN f : IsPrefix(p, q)}

Without(f, S) == [q \in (DOMAIN f) \ S |-> f[q]]

unlink(f, p) == Without(f, {p})

rmtree(f, p) == Without(f, Under(f, p))

Rebase(q, src, dst) == dst \o SubSeq(q, Len(src) + 1, Len(q))

\* os.rename succeeds: the source exists, a file never replaces a directory,
\* a directory replaces nothing but an empty directory
rename_ok(f, src, dst) ==
    /\ exists(f, src)
    /\ is_dir(f, Parent(dst))
    /\ is_file(f, src) => ~is_dir(f, dst)
    /\ is_dir(f, src) => (~exists(f, dst) \/ (is_dir(f, dst) /\ Under(f, dst) = {dst}))

rename(f, src, dst) ==
    LET moved == Under(f, src)
        rest  == (DOMAIN f) \ (moved \cup {dst})
    IN  [q \in rest \cup {Rebase(m, src, dst) : m \in moved} |->
            IF IsPrefix(dst, q) THEN f[Rebase(q, dst, src)] ELSE f[q]]

mkdir(f, p, mode) == (p :> Dir(mode, RootUid, RootGid)) @@ f

chown_ok(f, p) == exists(f, p)

chown(f, p, uid, gid) ==
    [f EXCEPT ![p].uid = IF uid = Unchanged THEN @ ELSE uid,
              ![p].gid = IF gid = Unchanged THEN @ ELSE gid]

chmod(f, p, mode) == [f EXCEPT ![p].mode = mode]

\* a temp name outside the directory it was asked for
temp_direntry_elsewhere(f, dir) ==
    LET free(i) == ~exists(f, Root \o <<TempNames[i]>>)
        k == CHOOSE i \in 1..NumTemps : free(i) /\ \A j \in 1..(i - 1) : ~free(j)
    IN  Root \o <<TempNames[k]>>

\* the first candidate name that is free in dir
temp_direntry(f, dir) ==
    LET free(i) == ~exists(f, dir \o <<TempNames[i]>>)
        k == CHOOSE i \in 1..NumTemps : free(i) /\ \A j \in 1..(i - 1) : ~free(j)
    IN  dir \o <<TempNames[k]>>

IsTempPath(p) == \E i \in 1..Len(p) : \E k \in 1..Len(TempNames) : p[i] = TempNames[k]

----------------------------------------------------------------------------
(* Reversible actions.  An action is a record; id is the object's identity *)
(* (its position when it was appended).                                    *)

Act(kind, path, tmp, new, old) ==
    [kind |-> kind, path |-> path, tmp |-> tmp, new |-> new, old |-> old, id |-> 0]

NoAct == Act("none", <<>>, <<>>, <<>>, <<>>)

Raised(f) == [ok |-> FALSE, fs |-> f, act |-> NoAct]

\* RmFile.__init__
RmFile(f, actual) ==
    IF exists(f, actual) /\ ~is_file(f, actual) THEN Raised(f)
    ELSE LET tmp == temp_direntry(f, Parent(actual))
         IN  IF ~rename_ok(f, actual, tmp) THEN Raised(f)
             ELSE [ok |-> TRUE, fs |-> rename(f, actual, tmp),
                   act |-> Act("RmFile", actual, tmp, <<>>, <<>>)]

\* RmTree.__init__
RmTree(f, actual) ==
    IF exists(f, actual) /\ ~is_dir(f, actual) THEN Raised(f)
    ELSE LET tmp == temp_direntry(f, Parent(actual))
         IN  IF ~rename_ok(f, actual, tmp) THEN Raised(f)
             ELSE [ok |-> TRUE, fs |-> rename(f, actual, tmp),
                   act |-> Act("RmTree", actual, tmp, <<>>, <<>>)]

\* MkDir.__init__
MkDir(f, path) ==
    IF exists(f, path) THEN Raised(f)
    ELSE IF ~is_dir(f, Parent(path)) THEN Raised(f)
    ELSE LET tmp == temp_direntry(f, Parent(path))
         IN  [ok |-> TRUE, fs |-> mkdir(f, tmp, DefaultDirMode),
              act |-> Act("MkDir", path, tmp, <<>>, <<>>)]

\* DeleteOnError.__init__
DeleteOnError(f, path) ==
    [ok |-> TRUE, fs |-> f, act |-> Act("DeleteOnError", path, <<>>, <<>>, <<>>)]

\* Chown.__init__
Chown(f, path, uid, gid) ==
    IF ~exists(f, path) THEN Raised(f)
    ELSE [ok |-> TRUE, fs |-> f,
          act |-> Act("Chown", path, <<>>, <<uid, gid>>,
                      <<IF uid = Unchanged THEN Unchanged ELSE f[path].uid,
                        IF gid = Unchanged THEN Unchanged ELSE f[path].gid>>)]

\* Chmod.__init__
Chmod(f, path, mode) ==
    IF ~exists(f, path) THEN Raised(f)
    ELSE [ok |-> TRUE, fs |-> f,
          act |-> Act("Chmod", path, <<>>, <<mode>>, <<f[path].mode % (mode_mask + 1)>>)]

Done(f) == [ok |-> TRUE, fs |-> f]

Failed(f) == [ok |-> FALSE, fs |-> f]

\* the moved-aside file is never unlinked
RmFile_apply_skipped(f, a) == Done(f)

\* RmFile.apply: self._tmp.unlink(missing_ok=True)
RmFile_apply(f, a) ==
    IF is_dir(f, a.tmp) THEN Failed(f) ELSE Done(unlink(f, a.tmp))

\* the revert that leaves the file under its temporary name
RmFile_revert_skipped(f, a) == Done(f)

\* RmFile.revert: self._tmp.rename(self._actual)
RmFile_revert(f, a) ==
    IF rename_ok(f, a.tmp, a.path) THEN Done(rename(f, a.tmp, a.path)) ELSE Failed(f)

\* RmTree.apply
RmTree_apply(f, a) ==
    IF ~exists(f, a.tmp) THEN Done(f)
    ELSE IF is_file(f, a.tmp) THEN Failed(f)
    ELSE Done(rmtree(f, a.tmp))

\* RmTree.revert
RmTree_revert(f, a) ==
    IF rename_ok(f, a.tmp, a.path) THEN Done(rename(f, a.tmp, a.path)) ELSE Failed(f)

\* the staged directory is never given its final name
MkDir_apply_skipped(f, a) == Done(f)

\* MkDir.apply
MkDir_apply(f, a) ==
    IF rename_ok(f, a.tmp, a.path) THEN Done(rename(f, a.tmp, a.path)) ELSE Failed(f)

\* MkDir.revert
MkDir_revert(f, a) ==
    IF is_dir(f, a.tmp) THEN Done(rmtree(f, a.tmp)) ELSE Done(f)

\* DeleteOnError.apply
DeleteOnError_apply(f, a) == Done(f)

\* DeleteOnError.revert
DeleteOnError_revert(f, a) ==
    IF ~exists(f, a.path) THEN Done(f)
    ELSE IF is_dir(f, a.path) THEN Done(rmtree(f, a.path))
    ELSE Done(unlink(f, a.path))

\* Chown.apply
Chown_apply(f, a) ==
    IF chown_ok(f, a.path) THEN Done(chown(f, a.path, a.new[1], a.new[2])) ELSE Failed(f)

\* Chown.revert
Chown_revert(f, a) ==
    IF chown_ok(f, a.path) THEN Done(chown(f, a.path, a.old[1], a.old[2])) ELSE Failed(f)

\* Chmod.apply
Chmod_apply(f, a) ==
    IF exists(f, a.path) THEN Done(chmod(f, a.path, a.new[1])) ELSE Failed(f)

\* Chmod.revert
Chmod_revert(f, a) ==
    IF exists(f, a.path) THEN Done(chmod(f, a.path, a.old[1])) ELSE Failed(f)

\* action.apply(), by the action's class
apply(f, a) ==
    CASE a.kind = "RmFile" -> RmFile_apply(f, a)
      [] a.kind = "RmTree" -> RmTree_apply(f, a)
      [] a.kind = "MkDir" -> MkDir_apply(f, a)
      [] a.kind = "DeleteOnError" -> DeleteOnError_apply(f, a)
      [] a.kind = "Chown" -> Chown_apply(f, a)
      [] a.kind = "Chmod" -> Chmod_apply(f, a)

\* action.revert(), by the action's class
revert(f, a) ==
    CASE a.kind = "RmFile" -> RmFile_revert(f, a)
      [] a.kind = "RmTree" -> RmTree_revert(f, a)
      [] a.kind = "MkDir" -> MkDir_revert(f, a)
      [] a.kind = "DeleteOnError" -> DeleteOnError_revert(f, a)
      [] a.kind = "Chown" -> Chown_revert(f, a)
      [] a.kind = "Chmod" -> Chmod_revert(f, a)

----------------------------------------------------------------------------
(* ReversibleFileActions *)

\* self._actions.append(a)
append(actions, a) == Append(actions, [a EXCEPT !.id = Len(actions) + 1])

Reverse(s) == [i \in 1..Len(s) |-> s[Len(s) + 1 - i]]

\* the journal walked in insertion order
exit_order_insertion(actions) == actions

\* actions = self._actions[::-1]
exit_order(actions) == Reverse(actions)

\* the for-loops of __exit__ without their try: the first failure ends the walk
RECURSIVE exit_loop_stops(_, _, _, _, _)
exit_loop_stops(actions, typ, f, failed_items, log) ==
    IF actions = <<>> \/ failed_items # <<>>
    THEN [fs |-> f, failed_items |-> failed_items, log |-> log]
    ELSE LET action == Head(actions)
             r == IF typ THEN revert(f, action) ELSE apply(f, action)
             att == [op |-> IF typ THEN "revert" ELSE "apply", id |-> action.id, ok |-> r.ok]
         IN  exit_loop_stops(Tail(actions), typ, r.fs,
                             IF r.ok THEN failed_items ELSE Append(failed_items, action),
                             Append(log, att))

\* the two for-loops of __exit__: one attempt per action, failures collected
RECURSIVE exit_loop(_, _, _, _, _)
exit_loop(actions, typ, f, failed_items, log) ==
    IF actions = <<>> THEN [fs |-> f, failed_items |-> failed_items, log |-> log]
    ELSE LET action == Head(actions)
             r == IF typ THEN revert(f, action) ELSE apply(f, action)
             att == [op |-> IF typ THEN "revert" ELSE "apply", id |-> action.id, ok |-> r.ok]
         IN  exit_loop(Tail(actions), typ, r.fs,
                       IF r.ok THEN failed_items ELSE Append(failed_items, action),
                       Append(log, att))

\* what leaves __exit__: it returns None, so an exception in flight goes on
\* and nothing is raised for the failed items
exit_surfaces(typ, failed_items) == IF typ THEN "original" ELSE "none"

\* the state __exit__ leaves, r being what its loop produced
exit_returns(actions, typ, r) ==
    [fs |-> r.fs,
     actions |-> Reverse(r.failed_items),
     log |-> r.log,
     surfaced |-> exit_surfaces(typ, r.failed_items)]

\* __exit__ without its last assignment: the journal keeps every action
exit_keeps_actions(actions, typ, f) ==
    [exit_returns(actions, typ, exit_loop(exit_order(actions), typ, f, <<>>, <<>>))
        EXCEPT !.actions = actions]

\* __exit__ committing in insertion order, reverting in reverse order
exit_commit_insertion(actions, typ, f) ==
    exit_returns(actions, typ,
                 exit_loop(IF typ THEN exit_order(actions) ELSE actions, typ, f, <<>>, <<>>))

\* ReversibleFileActions.__exit__
exit(actions, typ, f) ==
    exit_returns(actions, typ, exit_loop(exit_order(actions), typ, f, <<>>, <<>>))

----------------------------------------------------------------------------
(* The registry store (impl/db.py).  A table is the set of its rows. *)

\* the database init_db leaves: q_create_pkgs_table, q_create_files_table
\* and the index on files(pkg)
init_db ==
    [tables |-> {"pkgs", "files"}, index |-> TRUE, pkgs |-> {}, files |-> {}, dirs |-> {}]

\* db.init_db() on the database d: CREATE TABLE IF NOT EXISTS pkgs, files;
\* CREATE INDEX if not exists on files(pkg)
init_db_on(d) == [d EXCEPT !.tables = @ \cup {"pkgs", "files"}, !.index = TRUE]

\* main.dbreset: the three tables dropped and created again
dbreset ==
    [tables |-> {"pkgs", "files", "dirs"}, index |-> FALSE, pkgs |-> {}, files |-> {}, dirs |-> {}]

\* the lookup that never finds the package
has_pkg_never(d, pkg_name) == FALSE

has_pkg(d, pkg_name) == \E r \in d.pkgs : r.pkg = pkg_name

which_pkg_owns_file(d, fpath) ==
    IF \E r \in d.files : r.fpath = fpath
    THEN (CHOOSE r \in d.files : r.fpath = fpath).pkg
    ELSE "None"

\* the SELECT without its WHERE pkg = ?
pkg_files_installed_all(d, pkg) == d.files

pkg_files_installed(d, pkg) == {r \in d.files : r.pkg = pkg}

Sql(d) == [ok |-> TRUE, db |-> d]

SqlError(d) == [ok |-> FALSE, db |-> d]

\* the insert into pkgs is left out
record_pkg_unrecorded(d, info) == Sql(d)

\* INSERT INTO pkgs: pkg is the primary key
record_pkg(d, info) ==
    IF has_pkg(d, info.name) THEN SqlError(d)
    ELSE Sql([d EXCEPT !.pkgs = @ \cup {[pkg |-> info.name, version |-> info.version,
                                         release |-> info.release]}])

\* manifest.files, which PkgManifest does not define: the mapping of the
\* manifest's files to their checksums
PkgManifest_files(manifest) == manifest.file_checksums

\* INSERT INTO files, were fpath not a key: the rows are added to the rest
record_files_no_replace(d, pkg, manifest) ==
    Sql([d EXCEPT !.files = @ \cup {[fpath |-> p, pkg |-> pkg,
                                      sha256 |-> PkgManifest_files(manifest)[p]] :
                                        p \in DOMAIN PkgManifest_files(manifest)}])

\* INSERT INTO files: fpath is PRIMARY KEY ON CONFLICT REPLACE
record_files(d, pkg, manifest) ==
    LET items == PkgManifest_files(manifest)
        rows == {[fpath |-> p, pkg |-> pkg, sha256 |-> items[p]] : p \in DOMAIN items}
    IN  Sql([d EXCEPT !.files = {r \in @ : r.fpath \notin DOMAIN items} \cup rows])

\* db.record_dirs, which db.py does not define: bulk insert into dirs,
\* whose primary key is (dir, pkg)
record_dirs(d, pkg, dirs) ==
    IF "dirs" \notin d.tables THEN SqlError(d)
    ELSE IF \E x \in dirs : [dir |-> x, pkg |-> pkg] \in d.dirs THEN SqlError(d)
    ELSE Sql([d EXCEPT !.dirs = @ \cup {[dir |-> x, pkg |-> pkg] : x \in dirs}])

\* DELETE FROM files where pkg = ?; DELETE FROM pkgs where pkg = ?
rm_pkg(d, pkg) ==
    [d EXCEPT !.files = {r \in @ : r.pkg # pkg},
              !.pkgs = {r \in @ : r.pkg # pkg}]

----------------------------------------------------------------------------
(* Package archives *)

\* config.pkg_registry
pkg_registry == <<"reg">>

PD == <<"d">>
PA == <<"d", "a">>
PB == <<"d", "b">>

Pkgs == {"A", "B"}

\* what the archive builder's tar.add records for every member
TarUid == 1000
TarGid == 50

\* hashlib.sha256 over the file's bytes
sha256sum(data) == <<"sha256", data>>

\* int(s.mode, base=8) of a three-digit mode string
int8(mode) == mode[1] * 64 + mode[2] * 8 + mode[3]

\* pwd.getpwnam(name).pw_uid, or raise
user_uid_ok(name) == name = "root"

user_uid(name) == RootUid

\* grp.getgrnam(name).gr_gid, or raise
group_gid_ok(name, leport) == name = "root" \/ (name = "leport" /\ leport)

group_gid(name) == IF name = "leport" THEN LeportGid ELSE RootGid

PkgManifestStat(user, group, mode) == [user |-> user, group |-> group, mode |-> mode]

PkgManifest(file_checksums, stat) == [file_checksums |-> file_checksums, stat |-> stat]

Member(path, kind, data) == [path |-> path, kind |-> kind, data |-> data]

\* the files/ tree of each package, in archive order (tar.add walks a
\* directory before its entries)
Payload(name) ==
    IF name = "A"
    THEN <<Member(PD, "dir", "-"), Member(PA, "file", "a1")>>
    ELSE <<Member(PD, "dir", "-"), Member(PA, "file", "b1"), Member(PB, "file", "b2")>>

DirMode(name) == IF name = "A" THEN <<7, 5, 0>> ELSE <<7, 5, 5>>

Defects == {"none", "badsum", "nosum", "nostat", "nouser", "badhooks"}

\* the archive makepkg writes for the package, then damaged by defect:
\*   badsum   the payload of /d/a was altered after the manifest was written
\*   nosum    the manifest has no checksum for /d/a
\*   nostat   the manifest has no stat entry for /d/a
\*   nouser   the stat entry of /d/a names a user the host does not have
\*   badhooks hooks.py does not define a Hooks class
Archive(name, defect) ==
    LET members == Payload(name)
        files == {members[i].path : i \in {k \in 1..Len(members) : members[k].kind = "file"}}
        paths == {members[i].path : i \in 1..Len(members)}
        data(p) == (CHOOSE m \in Range(members) : m.path = p).data
        fkeys == IF defect = "nosum" THEN files \ {PA} ELSE files
        skeys == IF defect = "nostat" THEN paths \ {PA} ELSE paths
    IN  [name |-> name, version |-> "0.1", release |-> 1,
         hooks |-> IF defect = "badhooks" THEN "bad" ELSE IF name = "B" THEN "ok" ELSE "none",
         members |-> [i \in 1..Len(members) |->
                        IF defect = "badsum" /\ members[i].path = PA
                        THEN Member(PA, "file", "bad") ELSE members[i]],
         keys |-> SelectSeq([i \in 1..Len(members) |-> members[i].path],
                            LAMBDA p : p \in fkeys),
         manifest |-> PkgManifest(
             [p \in fkeys |-> sha256sum(data(p))],
             [p \in skeys |->
                 IF p \in files
                 THEN PkgManifestStat(IF defect = "nouser" /\ p = PA THEN "ghost" ELSE "root",
                                      "root", <<6, 4, 4>>)
                 ELSE PkgManifestStat("root", "root", DirMode(name))])]

----------------------------------------------------------------------------
(* The install engine (impl/pkg.py install, main.py install).  A call in   *)
(* progress is a record: the filesystem, the journal, the registry as the  *)
(* connection sees it, whether a transaction is open, the set installed,   *)
(* err, the exception in flight ("" for none), cause, the first exception  *)
(* raised, ran, the hooks called so far, and events, the transaction       *)
(* statements executed and the journal's attempts, in the order made.      *)

Call(f, d) ==
    [fs |-> f, actions |-> <<>>, db |-> d, begun |-> d, txn |-> FALSE,
     installed |-> {}, err |-> "", cause |-> "", ran |-> <<>>, md |-> <<>>,
     events |-> <<>>]

Raise(c, e) == [c EXCEPT !.err = e, !.cause = IF @ = "" THEN e ELSE @]

\* the hook's exception is not caught
run_hook_propagates(c, hook, raised) ==
    IF c.err # "" THEN c
    ELSE IF hook \in raised THEN Raise([c EXCEPT !.ran = Append(@, hook)], "hook raised")
    ELSE [c EXCEPT !.ran = Append(@, hook)]

\* try: hooks.<hook>() / except Exception: print(...); raised is the set of
\* hooks whose body raises
run_hook(c, hook, raised) ==
    IF c.err # "" THEN c ELSE [c EXCEPT !.ran = Append(@, hook)]

\* fs.<action>(...): construct the action and append it, or raise e
Push(c, r, e) ==
    IF r.ok THEN [c EXCEPT !.fs = r.fs, !.actions = append(@, r.act)]
    ELSE Raise(c, e)

\* yields the manifest's file paths that exist on the host, in key order
install_conflicts(f, pkg) == SelectSeq(pkg.keys, LAMBDA fpath : exists(f, fpath))

\* one metadata file copied into the staged directory, chowned to the
\* shared group and marked delete-on-error (install, lines 311-329)
stage_copy(c, fname, data) ==
    LET fpath == c.md \o <<fname>>
        f1 == (fpath :> File(data, DefaultFileMode, RootUid, RootGid)) @@ c.fs
        c1 == Push([c EXCEPT !.fs = f1], Chown(f1, fpath, Unchanged, group_gid("leport")),
                   "FileNotFoundError")
    IN  Push(c1, DeleteOnError(c1.fs, fpath), "")

\* install, lines 306-329: the registry metadata directory is staged
stage_metadata(c, pkg, leport) ==
    LET r == MkDir(c.fs, pkg_registry \o <<pkg.name>>)
    IN  IF ~r.ok THEN Raise(c, "ValueError: cannot create dir")
        ELSE LET c1 == [Push(c, r, "") EXCEPT !.md = r.act.tmp]
             IN  IF ~group_gid_ok("leport", leport) THEN Raise(c1, "RuntimeError: missing group")
                 ELSE LET c2 == stage_copy(c1, "info.yml", pkg.name)
                          c3 == stage_copy(c2, "manifest.yml", pkg.name)
                      IN  IF pkg.hooks = "none" THEN c3
                          ELSE stage_copy(c3, "hooks.py", pkg.hooks)

\* load_pkg_hooks(...)(info, manifest)
load_pkg_hooks(c, pkg) ==
    IF is_file(c.fs, c.md \o <<"hooks.py">>) /\ c.fs[c.md \o <<"hooks.py">>].data = "bad"
    THEN Raise(c, "ValueError: invalid hooks file")
    ELSE c

\* for fpath, should_overwrite in conflicts: if should_overwrite: fs.rm(fpath)
RECURSIVE rm_overwritten(_, _)
rm_overwritten(c, conflicts) ==
    IF conflicts = <<>> \/ c.err # "" THEN c
    ELSE LET fpath == Head(conflicts)[1]
             should_overwrite == Head(conflicts)[2]
         IN  rm_overwritten(
                 IF should_overwrite
                 THEN Push(c, RmFile(c.fs, fpath), "ValueError: rm only works for files")
                 ELSE c,
                 Tail(conflicts))

\* tarfile writes one member at its destination
extract(c, member) ==
    IF member.kind = "dir"
    THEN IF is_dir(c.fs, member.path) THEN c
         ELSE IF exists(c.fs, member.path) THEN Raise(c, "FileExistsError")
         ELSE [c EXCEPT !.fs = (member.path :> Dir(DefaultDirMode, TarUid, TarGid)) @@ @]
    ELSE IF is_dir(c.fs, member.path) THEN Raise(c, "IsADirectoryError")
         ELSE [c EXCEPT !.fs = (member.path :> File(member.data, DefaultFileMode, TarUid, TarGid))
                                @@ Without(@, {member.path})]

\* the member is yielded although exclude_files holds its path
member_step_no_exclude(c, member, exclude_files) ==
    LET p == member.path
        c1 == IF exists(c.fs, p)
              THEN IF ~is_dir(c.fs, p) THEN Push(c, RmFile(c.fs, p), "ValueError") ELSE c
              ELSE Push(c, DeleteOnError(c.fs, p), "")
    IN  IF c1.err # "" THEN c1
        ELSE extract([c1 EXCEPT !.installed = @ \cup {p}], member)

\* an existing directory is marked delete-on-error like a new path
member_step_marks_dirs(c, member, exclude_files) ==
    LET p == member.path
    IN  IF exists(c.fs, p) /\ p \in exclude_files THEN c
        ELSE LET c1 == IF exists(c.fs, p) /\ ~is_dir(c.fs, p)
                       THEN Push(c, RmFile(c.fs, p), "ValueError")
                       ELSE Push(c, DeleteOnError(c.fs, p), "")
             IN  IF c1.err # "" THEN c1
                 ELSE extract([c1 EXCEPT !.installed = @ \cup {p}], member)

\* one turn of the generator members() and the extraction of what it yields
member_step(c, member, exclude_files) ==
    LET p == member.path
    IN  IF exists(c.fs, p) /\ p \in exclude_files THEN c
        ELSE LET c1 == IF exists(c.fs, p)
                       THEN IF ~is_dir(c.fs, p)
                            THEN Push(c, RmFile(c.fs, p), "ValueError")
                            ELSE c
                       ELSE Push(c, DeleteOnError(c.fs, p), "")
             IN  IF c1.err # "" THEN c1
                 ELSE extract([c1 EXCEPT !.installed = @ \cup {p}], member)

\* tar.extractall(path=Path("/"), members=members(tar)); attrs is whether
\* this tarfile sets owner and mode of the directories it extracted
RECURSIVE extractall(_, _, _, _, _)
extractall(c, members, exclude_files, attrs, dirs) ==
    IF c.err # "" THEN c
    ELSE IF members = <<>>
    THEN IF attrs
         THEN [c EXCEPT !.fs = [q \in DOMAIN @ |->
                    IF q \in dirs THEN Dir(DefaultDirMode, TarUid, TarGid) ELSE @[q]]]
         ELSE c
    ELSE LET c1 == member_step(c, Head(members), exclude_files)
         IN  extractall(c1, Tail(members), exclude_files, attrs,
                        IF Head(members).kind = "dir" /\ Head(members).path \in c1.installed
                        THEN dirs \cup {Head(members).path} ELSE dirs)

\* a mismatch goes unnoticed
verify_checksums_skipped(c, manifest) == c

\* install, lines 379-389: every installed file hashes to the manifest's value
verify_checksums(c, manifest) ==
    LET installed_files == {p \in c.installed : ~is_dir(c.fs, p)}
    IN  IF c.err # "" THEN c
        ELSE IF \E fpath \in installed_files :
              \/ fpath \notin DOMAIN manifest.file_checksums
              \/ manifest.file_checksums[fpath] # sha256sum(c.fs[fpath].data)
        THEN Raise(c, "RuntimeError: checksum")
        ELSE c

\* install, lines 391-397: for fpath in installed, in the order the set
\* yields them (order lists every path the archive has)
RECURSIVE apply_stat(_, _, _)
apply_stat(c, order, manifest) ==
    IF order = <<>> \/ c.err # "" THEN c
    ELSE LET fpath == Head(order)
         IN  IF fpath \notin c.installed THEN apply_stat(c, Tail(order), manifest)
             ELSE IF fpath \notin DOMAIN manifest.stat THEN Raise(c, "KeyError: stat")
             ELSE LET s == manifest.stat[fpath]
                      f1 == chmod(c.fs, fpath, int8(s.mode))
                  IN  IF ~user_uid_ok(s.user)
                      THEN Raise([c EXCEPT !.fs = f1], "RuntimeError: missing user")
                      ELSE IF ~group_gid_ok(s.group, TRUE)
                      THEN Raise([c EXCEPT !.fs = f1], "RuntimeError: missing group")
                      ELSE apply_stat(
                               [c EXCEPT !.fs = chown(f1, fpath, user_uid(s.user), group_gid(s.group))],
                               Tail(order), manifest)

Execute(c, r, e) == IF r.ok THEN [c EXCEPT !.db = r.db] ELSE Raise(c, e)

\* record_files is handed the archive's manifest, not the checksums computed
\* for the files installed
record_whole_manifest(c, pkg) ==
    LET installed_dirs == {p \in c.installed : is_dir(c.fs, p)}
        c1 == Execute(c, record_files(c.db, pkg.name, pkg.manifest), "IntegrityError: files")
        c2 == IF c1.err # "" THEN c1
              ELSE Execute(c1, record_dirs(c1.db, pkg.name, installed_dirs), "OperationalError: dirs")
    IN  IF c.err # "" THEN c
        ELSE IF c2.err # "" THEN c2
        ELSE Execute(c2, record_pkg(c2.db, pkg), "IntegrityError: pkgs")

\* install, lines 399-405
record(c, pkg) ==
    LET installed_files == {p \in c.installed : ~is_dir(c.fs, p)}
        installed_dirs == {p \in c.installed : is_dir(c.fs, p)}
        installed_files_checksums == [p \in installed_files |-> sha256sum(c.fs[p].data)]
        c1 == Execute(c, record_files(c.db, pkg.name,
                                      PkgManifest(installed_files_checksums, pkg.manifest.stat)),
                      "IntegrityError: files")
        c2 == IF c1.err # "" THEN c1
              ELSE Execute(c1, record_dirs(c1.db, pkg.name, installed_dirs), "OperationalError: dirs")
    IN  IF c.err # "" THEN c
        ELSE IF c2.err # "" THEN c2
        ELSE Execute(c2, record_pkg(c2.db, pkg), "IntegrityError: pkgs")

\* the handler without conn.execute("rollback")
install_except_no_rollback(c) ==
    IF ~c.txn THEN Raise(c, "OperationalError: no transaction is active")
    ELSE [c EXCEPT !.txn = FALSE, !.fs = rmtree(@, c.md)]

\* install, lines 413-416: the handler of the try block
install_except(c) ==
    IF ~c.txn THEN Raise(c, "OperationalError: no transaction is active")
    ELSE [c EXCEPT !.db = c.begun, !.txn = FALSE, !.fs = rmtree(@, c.md),
                   !.events = Append(@, "rollback")]

\* conn.execute("begin")
begin(c) ==
    IF c.err # "" THEN c
    ELSE [c EXCEPT !.txn = TRUE, !.begun = c.db, !.events = Append(@, "begin")]

\* the paths answered "do not overwrite"
exclude(conflicts) == {conflicts[i][1] : i \in {k \in 1..Len(conflicts) : ~conflicts[k][2]}}

\* the try block ends without its commit
install_end_no_commit(c) == IF c.err # "" THEN install_except(c) ELSE c

\* the end of the try block: commit, or the handler
install_end(c) ==
    IF c.err # "" THEN install_except(c)
    ELSE [c EXCEPT !.txn = FALSE, !.events = Append(@, "commit")]

\* install, lines 331-416: the try block and its handler; an exception
\* raised by a step passes through the steps after it
install_try(c, pkg, conflicts, order, attrs, raised) ==
    IF c.err # "" THEN c
    ELSE install_end(
             run_hook(
                 record(
                     apply_stat(
                         verify_checksums(
                             extractall(
                                 begin(run_hook(
                                     rm_overwritten(load_pkg_hooks(c, pkg), conflicts),
                                     "preinst", raised)),
                                 pkg.members, exclude(conflicts), attrs, {}),
                             pkg.manifest),
                         order, pkg.manifest),
                     pkg),
                 "postinst", raised))

\* the journal scope is left: x is what __exit__ did
Leave(c, x) ==
    [c EXCEPT !.fs = x.fs, !.actions = x.actions,
              !.events = @ \o [i \in 1..Len(x.log) |->
                                 IF x.log[i].op = "apply"
                                 THEN IF x.log[i].ok THEN "apply" ELSE "apply raised"
                                 ELSE IF x.log[i].ok THEN "revert" ELSE "revert raised"]]

\* after the commit and before the scope ends something else on the host
\* (another process) has put a directory where the journal moved a file
\* aside, so that the unlink of RmFile.apply raises
lose(c, lost) ==
    IF ~lost \/ c.err # "" THEN c
    ELSE [c EXCEPT !.fs = [p \in DOMAIN @ |->
                             IF \E a \in Range(c.actions) : a.kind = "RmFile" /\ a.tmp = p
                             THEN Dir(DefaultDirMode, RootUid, RootGid) ELSE @[p]]]

\* the end of `with ReversibleFileActions() as fs`
journal_exit(c) == Leave(c, exit(c.actions, c.err # "", c.fs))

\* what the caller sees of a call
Returned(c) ==
    [fs |-> c.fs, db |-> c.db, res |-> IF c.err = "" THEN "ok" ELSE c.err,
     actions |-> c.actions, installed |-> c.installed, cause |-> c.cause, ran |-> c.ran,
     events |-> c.events]

\* the command exits before the engine is called
Exits(f, d, code, conflicts) ==
    [fs |-> f, db |-> d, res |-> code, actions |-> <<>>, installed |-> {},
     cause |-> "", ran |-> <<>>, events |-> <<>>, conflicts |-> conflicts]

\* pkg.install(config, pkg, conflicts)
install(f, d, pkg, conflicts, leport, order, attrs, raised, lost) ==
    Returned(journal_exit(lose(
        install_try(stage_metadata(Call(f, d), pkg, leport), pkg, conflicts, order, attrs,
                    raised),
        lost)))

\* main.install: refuse an installed package, ask about each conflict
\* (answers) unless --force, ask whether to go on (go), then pkg.install
main_install(f, d, pkg, force, answers, go, leport, order, attrs, raised, lost) ==
    IF has_pkg(d, pkg.name)
    THEN Exits(f, d, "exit 2: already installed", <<>>)
    ELSE LET found == install_conflicts(f, pkg)
             conflicts == IF force THEN <<>>
                          ELSE [i \in 1..Len(found) |-> <<found[i], answers[i]>>]
         IN  IF conflicts # <<>> /\ ~go
             THEN Exits(f, d, "exit 0: declined", conflicts)
             ELSE [conflicts |-> conflicts]
                      @@ install(f, d, pkg, conflicts, leport, order, attrs, raised, lost)

----------------------------------------------------------------------------
(* The remove engine (impl/pkg.py remove) *)

\* db.pkg_dirs, which db.py does not define: the package's dirs rows, each
\* with the number of dirs rows (of any package) for that directory
pkg_dirs(d, pkg) ==
    {[dir |-> r.dir, count |-> Cardinality({x \in d.dirs : x.dir = r.dir})] :
        r \in {x \in d.dirs : x.pkg = pkg}}

RECURSIVE SetToSeq(_)
SetToSeq(S) ==
    IF S = {} THEN <<>>
    ELSE LET x == CHOOSE y \in S : TRUE IN <<x>> \o SetToSeq(S \ {x})

\* for fpath, hash in installed_files: fs.rm(fpath)
RECURSIVE rm_installed(_, _)
rm_installed(c, rows) ==
    IF rows = <<>> \/ c.err # "" THEN c
    ELSE rm_installed(Push(c, RmFile(c.fs, Head(rows).fpath), "RmFile raised"), Tail(rows))

\* the sweep without `if count > 1: continue`
RECURSIVE rmdir_sweep_any_count(_, _)
rmdir_sweep_any_count(f, rows) ==
    IF rows = <<>> THEN f
    ELSE LET fpath == Head(rows).dir
         IN  rmdir_sweep_any_count(
                 IF is_dir(f, fpath) /\ Under(f, fpath) = {fpath} THEN unlink(f, fpath)
                 ELSE f,
                 Tail(rows))

\* remove, lines 452-460: fpath.rmdir() for the directories no other
\* package records; an OSError is passed over
RECURSIVE rmdir_sweep(_, _)
rmdir_sweep(f, rows) ==
    IF rows = <<>> THEN f
    ELSE LET fpath == Head(rows).dir
         IN  rmdir_sweep(
                 IF Head(rows).count > 1 THEN f
                 ELSE IF is_dir(f, fpath) /\ Under(f, fpath) = {fpath} THEN unlink(f, fpath)
                 ELSE f,
                 Tail(rows))

\* PkgInfo.from_yaml(path), PkgManifest.from_yaml(path): the file is read
\* and parsed; what install staged for a package parses, "junk" does not
from_yaml_ok(f, p) == is_file(f, p) /\ f[p].data \in Pkgs

\* the entry is taken as it is found
registry_entry_unchecked(f, name) == TRUE

\* remove, lines 422-434: the registry entry is loaded
registry_entry_ok(f, name) ==
    LET install_md_dir == pkg_registry \o <<name>>
    IN  /\ is_dir(f, install_md_dir)
        /\ from_yaml_ok(f, install_md_dir \o <<"info.yml">>)
        /\ from_yaml_ok(f, install_md_dir \o <<"manifest.yml">>)

\* fs.rmtree(install_md_dir)
rm_registry_entry(c, install_md_dir) ==
    IF c.err # "" THEN c ELSE Push(c, RmTree(c.fs, install_md_dir), "RmTree raised")

\* remove, lines 450-460: after the journal scope; fault is the statement
\* at which sqlite3 raises (pkg_dirs' SELECT, rm_pkg's first DELETE), if any
remove_registry(c, name, sweep, fault) ==
    IF c.err # "" THEN c
    ELSE IF "dirs" \notin c.db.tables \/ fault = "pkg_dirs"
    THEN Raise(c, "OperationalError: dirs")
    ELSE IF fault = "rm_pkg" THEN Raise(c, "OperationalError: rm_pkg")
    ELSE [c EXCEPT
             !.fs = rmdir_sweep(@, SelectSeq(sweep, LAMBDA r : r \in pkg_dirs(c.db, name))),
             !.db = rm_pkg(@, name)]

\* the repo part of the name is not looked at
is_qualified_never(repo) == FALSE

\* remove, line 420: name.repo is not None
is_qualified(repo) == repo # "None"

\* pkg.remove(config, name); sweep is the order of the rows pkg_dirs returns
remove(f, d, repo, name, sweep, raised, fault) ==
    IF is_qualified(repo) THEN Returned(Raise(Call(f, d), "ValueError: repo prefix"))
    ELSE IF ~registry_entry_ok(f, name)
    THEN Returned(Raise(Call(f, d), "invalid registry entry"))
    ELSE IF load_pkg_hooks([Call(f, d) EXCEPT !.md = pkg_registry \o <<name>>],
                           [name |-> name]).err # ""
    THEN Returned(Raise(Call(f, d), "ValueError: invalid hooks file"))
    ELSE Returned(
             run_hook(
                 remove_registry(
                     journal_exit(
                         rm_registry_entry(
                             rm_installed(run_hook(Call(f, d), "prerm", raised),
                                          SetToSeq(pkg_files_installed(d, name))),
                             pkg_registry \o <<name>>)),
                     name, sweep, fault),
                 "postrm", raised))

----------------------------------------------------------------------------
(* The commands, run one after another on one host *)

\* no build command is running
NoBuild == [pc |-> "none"]

\* no __exit__ has run
NoExit == [typ |-> FALSE, before |-> <<>>, log |-> <<>>, surfaced |-> "none", done |-> FALSE]

HostTrees == {"empty", "dir", "file", "adir", "broken"}

\* the host before the first command: the registry directory that init
\* creates, and what else the host has at the payload's paths (on the adir
\* host a directory where the packages have the file /d/a); on the
\* broken host the registry entry of A is a file and that of B has a
\* manifest that does not parse
Host(tree) ==
    LET base == (Root :> Dir(493, RootUid, RootGid))
                @@ (pkg_registry :> Dir(DefaultDirMode, RootUid, LeportGid))
        d == (PD :> Dir(493, RootUid, RootGid))
        a == (PA :> File("old", 420, RootUid, RootGid))
        broken == (pkg_registry \o <<"A">> :> File("junk", DefaultFileMode, RootUid, LeportGid))
                  @@ (pkg_registry \o <<"B">> :> Dir(DefaultDirMode, RootUid, LeportGid))
                  @@ (pkg_registry \o <<"B", "info.yml">>
                          :> File("B", DefaultFileMode, RootUid, LeportGid))
                  @@ (pkg_registry \o <<"B", "manifest.yml">>
                          :> File("junk", DefaultFileMode, RootUid, LeportGid))
    IN  IF tree = "empty" THEN base
        ELSE IF tree = "broken" THEN broken @@ base
        ELSE IF tree = "dir" THEN d @@ base
        ELSE IF tree = "adir" THEN (PA :> Dir(493, RootUid, RootGid)) @@ d @@ base
        ELSE a @@ d @@ base

Orderings(S) ==
    {s \in [1..Cardinality(S) -> S] : \A i, j \in 1..Cardinality(S) : i # j => s[i] # s[j]}

\* the outcome of a command: the filesystem, the tables, how it ended
Outcome(r) == <<r.fs, r.db, r.res>>

\* the n-th command of the run, and how it ended; arc is the defect of the
\* archive given, keep and over are the conflicts answered "do not
\* overwrite" and "overwrite"; cause is the first exception raised inside
\* the engine, ran the hooks it called, raised the hooks whose body raised,
\* fault the SQL statement that failed, repo the repo part of the name
\* given to remove, quiet the outcome the same command has when no hook
\* raises, events the transaction statements and journal attempts made
Ran(n, op, pkg, arc, res, keep, over) ==
    [n |-> n, op |-> op, pkg |-> pkg, arc |-> arc, res |-> res, keep |-> keep, over |-> over,
     cause |-> "", ran |-> <<>>, raised |-> {}, fault |-> "none", repo |-> "None",
     quiet |-> <<>>, events |-> <<>>]

\* what the environment did to the command, and q, the same command run
\* with hooks that return
Given(raised, fault, repo, q) ==
    [raised |-> raised, fault |-> fault, repo |-> repo, quiet |-> Outcome(q)]

\* after leport init, and possibly leport dbreset
Init ==
    /\ \E tree \in HostTrees : fs = Host(tree)
    /\ db \in {init_db, dbreset}
    /\ last = Ran(0, "init", "-", "-", "ok", {}, {})
    /\ jr = <<>>
    /\ jopen = FALSE
    /\ jout = NoExit
    /\ snap = fs
    /\ bld = NoBuild

\* the command ends: r is what it returned or how it exited
Ends(op, name, defect, r) ==
    /\ fs' = r.fs
    /\ db' = r.db
    /\ last' = [Ran(last.n + 1, op, name, defect, r.res,
                    {x[1] : x \in {y \in Range(r.conflicts) : ~y[2]}},
                    {x[1] : x \in {y \in Range(r.conflicts) : y[2]}})
                    EXCEPT !.cause = r.cause, !.ran = r.ran, !.raised = r.raised,
                           !.fault = r.fault, !.repo = r.repo, !.quiet = r.quiet,
                           !.events = r.events]

\* the archives offered to install: every defect of package A, and for B
\* (the one with a hooks file) the sound archive and the one with bad hooks
Offered(name) ==
    IF name = "A" THEN Defects \ {"badhooks"} ELSE {"none", "badhooks"}

\* leport install <pkg> [--force]; Tamper says whether the host may put a
\* directory in the place of a moved-aside file while the command runs
InstallOf(Tamper) ==
    /\ last.n < MaxCommands
    /\ \E name \in Pkgs : \E defect \in Offered(name), force \in BOOLEAN, go \in BOOLEAN,
                             leport \in BOOLEAN, attrs \in BOOLEAN, lost \in Tamper,
                             raised \in SUBSET {"preinst", "postinst"} :
        LET pkg == Archive(name, defect)
            found == install_conflicts(fs, pkg)
            paths == [i \in 1..Len(pkg.members) |-> pkg.members[i].path]
            idle == has_pkg(db, name) \/ ~leport
        IN  \* an input the call does not read is held at one value
            /\ idle => defect = "none" /\ ~force /\ go /\ ~attrs
            /\ force => go /\ found # <<>>
            /\ found = <<>> => go
            /\ attrs => is_dir(fs, PD) /\ go
            /\ ~go => defect = "none"
            \* only a hooks file that loads has hooks that can raise
            /\ raised # {} => pkg.hooks = "ok" /\ ~idle /\ go
            \* only where files are moved aside can one be tampered with; the
            \* first command of a run is the one looked at
            /\ lost => found # <<>> /\ ~idle /\ go /\ defect = "none" /\ raised = {}
                        /\ last.n = 0
            /\ \E answers \in [1..Len(found) -> BOOLEAN], order \in Orderings(Range(paths)) :
                /\ force \/ idle \/ ~go => \A i \in 1..Len(found) : answers[i]
                /\ defect \notin {"nostat", "nouser"} \/ idle => order = paths
                /\ Ends("install", name, defect,
                        Given(raised, "none", "None",
                              main_install(fs, db, pkg, force, answers, go, leport, order,
                                           attrs, {}, lost))
                            @@ main_install(fs, db, pkg, force, answers, go, leport, order,
                                            attrs, raised, lost))
    /\ UNCHANGED <<jr, jopen, jout, snap, bld>>

\* leport install on a host that leaves the journal's temp entries alone
Install == InstallOf({FALSE})

\* leport install on a host that may tamper with them
InstallLost == InstallOf(BOOLEAN)

\* leport remove <pkg>
Remove ==
    /\ last.n < MaxCommands
    /\ \E repo \in {"None", "ports"}, name \in Pkgs,
          raised \in SUBSET {"prerm", "postrm"}, fault \in {"none", "pkg_dirs", "rm_pkg"} :
        \E sweep \in Orderings(pkg_dirs(db, name)) :
            /\ repo # "None" => name = "A"
            /\ raised # {} =>
                   /\ repo = "None"
                   /\ registry_entry_ok(fs, name)
                   /\ is_file(fs, pkg_registry \o <<name, "hooks.py">>)
            /\ fault # "none" => repo = "None" /\ registry_entry_ok(fs, name)
            /\ Ends("remove", name, "-",
                    [conflicts |-> <<>>]
                        @@ Given(raised, fault, repo, remove(fs, db, repo, name, sweep, {}, fault))
                        @@ remove(fs, db, repo, name, sweep, raised, fault))
    /\ UNCHANGED <<jr, jopen, jout, snap, bld>>

\* db.init_db() is run on the database as it is (leport init, line 131)
InitDb ==
    /\ last.n < MaxCommands
    /\ db' = init_db_on(db)
    /\ last' = Ran(last.n + 1, "init_db", "-", "-", "ok", {}, {})
    /\ UNCHANGED <<fs, jr, jopen, jout, snap, bld>>

\* something other than leport deletes a file the registry tracks
HostUnlink ==
    /\ last.n < MaxCommands
    /\ \E r \in db.files :
          /\ is_file(fs, r.fpath)
          /\ fs' = unlink(fs, r.fpath)
    /\ last' = Ran(last.n + 1, "unlink", "-", "-", "ok", {}, {})
    /\ UNCHANGED <<db, jr, jopen, jout, snap, bld>>

Next == Install \/ Remove \/ InitDb

Spec == Init /\ [][Next]_vars

\* the commands on a host that also acts on the tree between and during them
HostNext == InstallLost \/ Remove \/ InitDb \/ HostUnlink

SpecHost == Init /\ [][HostNext]_vars

----------------------------------------------------------------------------
(* The journal on its own: inside one scope (JInit is the state right      *)
(* after __enter__) actions are constructed in any order over a small      *)
(* tree, and the scope exits with or without an exception in flight.       *)

JPaths == {<<"f">>, <<"g">>, <<"g", "c">>, <<"n">>}

JModes == {448}

JInit ==
    /\ fs = (Root :> Dir(DefaultDirMode, RootUid, RootGid))
            @@ (<<"f">> :> File("c1", DefaultFileMode, RootUid, RootGid))
            @@ (<<"g">> :> Dir(DefaultDirMode, RootUid, RootGid))
            @@ (<<"g", "c">> :> File("c2", DefaultFileMode, RootUid, RootGid))
    /\ jr = <<>>
    /\ jopen = TRUE
    /\ jout = NoExit
    /\ snap = fs
    /\ db = init_db
    /\ last = Ran(0, "init", "-", "-", "ok", {}, {})
    /\ bld = NoBuild

JPush(r) ==
    /\ jopen
    /\ Len(jr) < MaxActions
    /\ r.ok
    /\ fs' = r.fs
    /\ jr' = append(jr, r.act)
    /\ UNCHANGED <<jopen, jout, snap, db, last, bld>>

\* ReversibleFileActions.rm
JRm == \E p \in JPaths : JPush(RmFile(fs, p))

\* ReversibleFileActions.rmtree
JRmTree == \E p \in JPaths : JPush(RmTree(fs, p))

\* ReversibleFileActions.mkdir
JMkDir == \E p \in JPaths : JPush(MkDir(fs, p))

\* ReversibleFileActions.delete_on_error
JDeleteOnError == \E p \in JPaths : JPush(DeleteOnError(fs, p))

\* ReversibleFileActions.chown
JChown == \E p \in JPaths : JPush(Chown(fs, p, Unchanged, LeportGid))

\* ReversibleFileActions.chmod
JChmod == \E p \in JPaths, m \in JModes : JPush(Chmod(fs, p, m))

\* the with-block ends: typ is whether an exception is in flight (a failed
\* constructor raises before changing anything, so it is an exit with typ)
JExit ==
    /\ jopen
    /\ \E typ \in BOOLEAN :
          LET r == exit(jr, typ, fs)
          IN  /\ fs' = r.fs
              /\ jr' = r.actions
              /\ jout' = [typ |-> typ, before |-> jr, log |-> r.log,
                          surfaced |-> r.surfaced, done |-> TRUE]
    /\ jopen' = FALSE
    /\ UNCHANGED <<snap, db, last, bld>>

JNext == JRm \/ JRmTree \/ JMkDir \/ JDeleteOnError \/ JChown \/ JChmod \/ JExit

SpecJournal == JInit /\ [][JNext]_vars

----------------------------------------------------------------------------
(* Properties of the journal, checked under SpecJournal *)

\* position in the exit log of the attempt op on the action with identity id
AttemptedBefore(op, x, y) ==
    \E m, n \in 1..Len(jout.log) :
        /\ m < n
        /\ jout.log[m].op = op /\ jout.log[m].id = x
        /\ jout.log[n].op = op /\ jout.log[n].id = y

\* C3: on rollback the actions are reverted in the reverse of the order in
\* which they were appended: the revert of a later action is attempted
\* before the revert of an earlier one.
C3_RevertReverseOrder ==
    (jout.done /\ jout.typ) =>
        \A i, j \in 1..Len(jout.before) :
            i < j => AttemptedBefore("revert", jout.before[j].id, jout.before[i].id)

C3_Witness == jout.done /\ jout.typ /\ Len(jout.before) >= 3

\* C4 as claimed: on commit the actions are applied in insertion order.
C4_ApplyInsertionOrder ==
    (jout.done /\ ~jout.typ) =>
        \A i, j \in 1..Len(jout.before) :
            i < j => AttemptedBefore("apply", jout.before[i].id, jout.before[j].id)

\* C4 as amended: on commit the actions are applied in the reverse of the
\* order in which they were appended, the same walk as on rollback.
C4_ApplyReverseOrder ==
    (jout.done /\ ~jout.typ) =>
        \A i, j \in 1..Len(jout.before) :
            i < j => AttemptedBefore("apply", jout.before[j].id, jout.before[i].id)

C4_Witness == jout.done /\ ~jout.typ /\ Len(jout.before) >= 3

\* C5: when an apply or a revert failed, what leaves the journal scope is a
\* compound failure naming the failed actions.
C5_FailureSurfaced ==
    (jout.done /\ \E m \in 1..Len(jout.log) : ~jout.log[m].ok) =>
        jout.surfaced = "compound"

\* C6: after the scope exits the journal holds exactly the actions whose
\* apply (commit) or revert (rollback) did not succeed.
C6_JournalRetainsFailed ==
    jout.done =>
        LET failedIds == {jout.log[m].id : m \in {n \in 1..Len(jout.log) : ~jout.log[n].ok}}
        IN  /\ {jr[k].id : k \in 1..Len(jr)} = failedIds
            /\ Len(jr) = Cardinality(failedIds)
            /\ Range(jr) \subseteq Range(jout.before)

C6_Witness == jout.done /\ jr # <<>> /\ Len(jr) < Len(jout.before)

\* C7: RmFile / RmTree of an existing file / directory P.  After
\* construction P is absent and its data is under a temp sibling in P's
\* parent; construction then revert restores the tree as it was;
\* construction then apply leaves neither P nor the temp sibling.
C7_RmReversible ==
    /\ (jopen /\ Len(jr) = 1 /\ jr[1].kind \in {"RmFile", "RmTree"}) =>
          LET a == jr[1]
          IN  /\ a.path \in DOMAIN snap
              /\ snap[a.path].kind = (IF a.kind = "RmFile" THEN "file" ELSE "dir")
              /\ ~exists(fs, a.path)
              /\ Parent(a.tmp) = Parent(a.path)
              /\ ~exists(snap, a.tmp)
              /\ \A q \in Under(snap, a.path) :
                    /\ exists(fs, Rebase(q, a.path, a.tmp))
                    /\ fs[Rebase(q, a.path, a.tmp)] = snap[q]
              /\ \A q \in (DOMAIN snap) \ Under(snap, a.path) : exists(fs, q) /\ fs[q] = snap[q]
    /\ (jout.done /\ Len(jout.before) = 1 /\ jout.before[1].kind \in {"RmFile", "RmTree"}) =>
          LET a == jout.before[1]
          IN  IF jout.typ
              THEN fs = snap
              ELSE fs = Without(snap, Under(snap, a.path))

C7_Witness ==
    /\ jout.done /\ jout.typ
    /\ Len(jout.before) = 1 /\ jout.before[1].kind = "RmTree"
    /\ jout.before[1].path = <<"g">>

\* the attempts the exit made on the action with identity id
Attempts(id) == {m \in 1..Len(jout.log) : jout.log[m].id = id}

\* C33: a failing action does not stop the journal: on commit every action
\* of the journal gets exactly one apply attempt, on rollback exactly one
\* revert attempt, whether or not an earlier attempt of the walk raised.
C33_EveryActionAttemptedOnce ==
    jout.done =>
        /\ Len(jout.log) = Len(jout.before)
        /\ \A i \in 1..Len(jout.before) :
              /\ Cardinality(Attempts(jout.before[i].id)) = 1
              /\ \A m \in Attempts(jout.before[i].id) :
                    jout.log[m].op = IF jout.typ THEN "revert" ELSE "apply"

\* an attempt raised and the walk went on to the action after it
C33_Witness ==
    /\ jout.done
    /\ Len(jout.before) >= 3
    /\ \E m \in 1..(Len(jout.log) - 1) : ~jout.log[m].ok /\ jout.log[m + 1].ok

----------------------------------------------------------------------------
(* Properties of install, under Spec.  A step of Install is told           *)
(* by last'.op; pkg.install was called unless the command exited first.    *)

ExitedFirst == {"exit 2: already installed", "exit 0: declined"}

\* pkg.install was called in this step and raised
InstallRaised(l) == l.op = "install" /\ l.res \notin ExitedFirst \cup {"ok"}

\* pkg.install was called in this step and returned
InstallReturned(l) == l.op = "install" /\ l.res = "ok"

\* the rows of the three tables
Rows(d) == <<d.pkgs, d.files, d.dirs>>

\* C1: an install call that raises leaves the host filesystem (paths,
\* contents, mode and ownership of what existed before) and the tables
\* pkgs, files and dirs as they were before the call.
C1_FailedInstallAtomic ==
    [][InstallRaised(last') => fs' = fs /\ Rows(db') = Rows(db)]_vars

\* C2: when an extracted file does not hash to the manifest's checksum, or
\* has none there, install raises; after that failure the host has no path
\* it did not have before, the tables have no new row, and the staged
\* registry metadata directory exists under neither name.
C2_ChecksumMismatchFatal ==
    [][/\ (/\ last'.op = "install"
           /\ last'.res \notin ExitedFirst
           /\ last'.arc \in {"badsum", "nosum"}
           /\ PA \notin last'.keep)
          => InstallRaised(last')
       /\ (last'.op = "install" /\ last'.res = "RuntimeError: checksum")
          => /\ DOMAIN fs' \subseteq DOMAIN fs
             /\ \A i \in 1..3 : Rows(db')[i] \subseteq Rows(db)[i]
             /\ ~exists(fs', pkg_registry \o <<last'.pkg>>)
             /\ \A p \in DOMAIN fs' : Parent(p) = pkg_registry => ~IsTempPath(p)]_vars

\* an install got as far as verifying checksums and failed there
C2_Witness ==
    /\ last.op = "install"
    /\ last.arc = "badsum"
    /\ last.res = "RuntimeError: checksum"

\* the entries of the registry metadata directory of package name
MdEntries(f, name) ==
    {p[Len(p)] : p \in {q \in DOMAIN f : q # Root /\ Parent(q) = pkg_registry \o <<name>>}}

\* C8: after a successful install of N, <pkg_registry>/N is a directory
\* holding info.yml and manifest.yml, and hooks.py exactly when the archive
\* has one, and no temp entry made by the journal is left on disk.
C8_MetadataInstalled ==
    [][InstallReturned(last') =>
         /\ is_dir(fs', pkg_registry \o <<last'.pkg>>)
         /\ MdEntries(fs', last'.pkg) =
                {"info.yml", "manifest.yml"}
                \cup (IF Archive(last'.pkg, last'.arc).hooks # "none" THEN {"hooks.py"} ELSE {})
         /\ \A p \in DOMAIN fs' : IsTempPath(p) => p \in DOMAIN fs]_vars

\* a package with a hooks file was installed over a file it replaced
C8_Witness ==
    /\ InstallReturned(last)
    /\ last.pkg = "B"
    /\ last.over # {}
    /\ is_file(fs, pkg_registry \o <<"B", "hooks.py">>)

\* C9: an install of an archive named N while pkgs has a row for N ends
\* with the refusal (exit status 2) and changes neither the filesystem nor
\* the registry.
C9_DuplicateRefused ==
    [][(last'.op = "install" /\ \E r \in db.pkgs : r.pkg = last'.pkg) =>
         /\ last'.res = "exit 2: already installed"
         /\ fs' = fs
         /\ db' = db]_vars

\* an installed package was offered again
C9_Witness ==
    /\ last.op = "install"
    /\ last.res = "exit 2: already installed"
    /\ \E r \in db.pkgs : r.pkg = last.pkg

\* C10: for each conflict answered "do not overwrite", after the install
\* (returned or raised) the path has the content it had, the package that
\* which_pkg_owns_file names for it is the same, and files has no row for
\* it under the installing package.
C10_ConflictRespected ==
    [][(last'.op = "install" /\ last'.res \notin ExitedFirst) =>
         \A P \in last'.keep :
            /\ exists(fs', P)
            /\ fs'[P].kind = fs[P].kind
            /\ fs'[P].data = fs[P].data
            /\ which_pkg_owns_file(db', P) = which_pkg_owns_file(db, P)
            /\ ~\E r \in db'.files : r.fpath = P /\ r.pkg = last'.pkg]_vars

\* a package was installed around a file another package owns
C10_Witness ==
    /\ InstallReturned(last)
    /\ PA \in last.keep
    /\ which_pkg_owns_file(db, PA) \notin {"None", last.pkg}
    /\ exists(fs, PB)

\* what the archive holds for path P
PayloadOf(pkg, P) == (CHOOSE m \in Range(pkg.members) : m.path = P).data

\* C11: for each conflict answered "overwrite", after a successful install
\* the file has the archive's content, its one files row has the
\* manifest's checksum and names the installing package, and the
\* moved-aside original is gone.
C11_OverwriteAccepted ==
    [][InstallReturned(last') =>
         \A P \in last'.over :
            /\ is_file(fs', P)
            /\ fs'[P].data = PayloadOf(Archive(last'.pkg, last'.arc), P)
            /\ {r \in db'.files : r.fpath = P} =
                   {[fpath |-> P, pkg |-> last'.pkg,
                     sha256 |-> Archive(last'.pkg, last'.arc).manifest.file_checksums[P]]}
            /\ \A p \in DOMAIN fs' : IsTempPath(p) => p \in DOMAIN fs]_vars

\* B was installed over the file of A, which is still installed
C11_Witness ==
    /\ InstallReturned(last)
    /\ last.pkg = "B"
    /\ PA \in last.over
    /\ \E r \in db.pkgs : r.pkg = "A"

\* C12: after a successful install the package has a pkgs row, and every
\* path of the archive's files/ tree that was not excluded has a files row
\* (a regular file) or a dirs row (a directory) under the package.
C12_Coverage ==
    [][InstallReturned(last') =>
         /\ \E r \in db'.pkgs : r.pkg = last'.pkg
         /\ \A m \in Range(Archive(last'.pkg, last'.arc).members) :
               m.path \notin last'.keep =>
                   IF m.kind = "file"
                   THEN \E r \in db'.files : r.fpath = m.path /\ r.pkg = last'.pkg
                   ELSE [dir |-> m.path, pkg |-> last'.pkg] \in db'.dirs]_vars

\* A was installed and its file and its directory are recorded
C12_Witness ==
    /\ InstallReturned(last)
    /\ last.pkg = "A"
    /\ [dir |-> PD, pkg |-> "A"] \in db.dirs
    /\ which_pkg_owns_file(db, PA) = "A"

\* C13: right after a successful install, every files row of the installed
\* package records the SHA-256 of the file now at its path, and that is
\* the manifest's checksum for the path.
C13_ChecksumFidelity ==
    [][InstallReturned(last') =>
         \A r \in pkg_files_installed(db', last'.pkg) :
            /\ is_file(fs', r.fpath)
            /\ r.sha256 = sha256sum(fs'[r.fpath].data)
            /\ r.fpath \in DOMAIN Archive(last'.pkg, last'.arc).manifest.file_checksums
            /\ r.sha256 = Archive(last'.pkg, last'.arc).manifest.file_checksums[r.fpath]]_vars

\* B was installed and both of its files are recorded
C13_Witness ==
    /\ InstallReturned(last)
    /\ last.pkg = "B"
    /\ Cardinality(pkg_files_installed(db, "B")) = 2

\* every path the install of l put on f carries the manifest's mode and the
\* host ids of the manifest's user and group
StatApplied(l, f) ==
    \A m \in Range(Archive(l.pkg, l.arc).members) :
        m.path \notin l.keep =>
            LET s == Archive(l.pkg, l.arc).manifest.stat[m.path]
            IN  /\ exists(f, m.path)
                /\ f[m.path].mode = int8(s.mode)
                /\ f[m.path].uid = user_uid(s.user)
                /\ f[m.path].gid = group_gid(s.group)

\* the archive of l lacks the stat entry of a path it installs, or names a
\* user the host does not have
StatUnusable(l) ==
    /\ l.op = "install"
    /\ l.res \notin ExitedFirst
    /\ l.arc \in {"nostat", "nouser"}
    /\ PA \notin l.keep

\* C14: after a successful install every installed path has the mode, uid
\* and gid its stat entry gives; when an installed path has no stat entry
\* or its user or group is unknown to the host, the install fails and is
\* rolled back.
C14_StatFidelity ==
    [][/\ InstallReturned(last') => StatApplied(last', fs')
       /\ StatUnusable(last') =>
             /\ InstallRaised(last')
             /\ fs' = fs
             /\ Rows(db') = Rows(db)]_vars

\* C15 (R4): in every reachable state the files table has at most one row
\* for a path, so a path has at most one owner, also after a package was
\* installed over a file of another.
C15_FilesUnique ==
    \A r1, r2 \in db.files : r1.fpath = r2.fpath => r1 = r2

\* B was installed with --force over the file A owned, with A installed
C15_Witness ==
    /\ InstallReturned(last)
    /\ last.pkg = "B"
    /\ last.over = {} /\ last.keep = {}
    /\ which_pkg_owns_file(db, PA) = "B"
    /\ \E r \in db.pkgs : r.pkg = "A"

\* C16 (R1): in every reachable state, also after calls that failed
\* part-way, each row of files names a package that has a row in pkgs.
C16_FilesReferencePkgs ==
    \A r \in db.files : \E q \in db.pkgs : q.pkg = r.pkg

\* an install failed after its files rows were inserted, with another
\* package's rows in the table
C16_Witness ==
    /\ InstallRaised(last)
    /\ last.res = "OperationalError: dirs"
    /\ \E r \in db.files : r.pkg # last.pkg

\* remove was called in this step and returned
RemoveReturned(l) == l.op = "remove" /\ l.res = "ok"

\* the rows of any table that name the package
RowsOf(d, pkg) ==
    {r \in d.pkgs : r.pkg = pkg} \cup {r \in d.files : r.pkg = pkg}
        \cup {r \in d.dirs : r.pkg = pkg}

\* C17 (R2): a remove that returns has deleted the package's files rows,
\* its dirs rows and its pkgs row: afterwards no row of any table
\* references the package.
C17_RmPkgComplete ==
    [][RemoveReturned(last') => RowsOf(db', last'.pkg) = {}]_vars

\* the directories outside the registry that the step deleted
SweptDirs(f, g) ==
    {D \in DOMAIN f : is_dir(f, D) /\ D \notin DOMAIN g /\ ~IsPrefix(pkg_registry, D)}

\* C18 (R3): a directory that a remove deletes from the filesystem (the
\* package's own registry entry aside) has no dirs row of another package
\* at that moment, and nothing that was inside it is left on disk; so a
\* directory another package records, or one that is not empty, stays.
C18_SweepOnlyUnsharedEmpty ==
    [][last'.op = "remove" =>
        \A D \in SweptDirs(fs, fs') :
            /\ \A r \in db.dirs : r.dir = D => r.pkg = last'.pkg
            /\ \A p \in DOMAIN fs' : ~IsPrefix(D, p)]_vars

\* the remove that followed the install has deleted the directory the
\* package recorded
C18_Witness ==
    /\ last.n = 2
    /\ RemoveReturned(last)
    /\ [dir |-> PD, pkg |-> last.pkg] \in db.dirs
    /\ PD \notin DOMAIN fs

\* the package is installed and has a dirs row for D
Records(d, pkg, D) ==
    /\ \E q \in d.pkgs : q.pkg = pkg
    /\ [dir |-> D, pkg |-> pkg] \in d.dirs

\* D has nothing in it but files the registry holds for the package
EmptyWithout(f, d, pkg, D) ==
    Under(f, D) \ {D} \subseteq {r.fpath : r \in {x \in d.files : x.pkg = pkg}}

\* the first of the two removes: both packages were installed by the two
\* commands before it
FirstRemove(l, d, X, Y) ==
    /\ l.n = 2
    /\ X # Y
    /\ Records(d, X, PD) /\ Records(d, Y, PD)

\* the second of the two removes: the third command removed Y
SecondRemove(l, d, X, Y) ==
    /\ l.n = 3
    /\ X # Y
    /\ RemoveReturned(l) /\ l.pkg = Y
    /\ Records(d, X, PD)

\* C19: two packages whose payloads both contain directory D are
\* installed; removing one leaves D on disk with the other's dirs row for
\* D in place, and removing the other then deletes D if and only if D is
\* empty once that package's files are removed.
C19_DirectorySharing ==
    [][\A X, Y \in Pkgs :
        (RemoveReturned(last') =>
            /\ (FirstRemove(last, db, X, Y) /\ last'.pkg = Y) =>
                   is_dir(fs', PD) /\ Records(db', X, PD)
            /\ (SecondRemove(last, db, X, Y) /\ last'.pkg = X) =>
                   (PD \notin DOMAIN fs' <=> EmptyWithout(fs, db, X, PD)))]_vars

\* the same set of paths, each of the same kind and content
SameContents(f, g) ==
    /\ DOMAIN f = DOMAIN g
    /\ \A p \in DOMAIN f : f[p].kind = g[p].kind /\ f[p].data = g[p].data

\* C20: the first command installs a package on the host snap and returns,
\* the second removes that package and returns; then the filesystem has
\* the paths and contents of snap again (a path kept with overwrite=false
\* included) and the tables have their rows of before the install, none.
C20_RoundTrip ==
    [][(/\ last.n = 1 /\ InstallReturned(last)
        /\ RemoveReturned(last') /\ last'.pkg = last.pkg)
       => /\ SameContents(fs', snap)
          /\ Rows(db') = Rows(init_db)]_vars

\* C21: a command in which a hook (preinst, postinst, prerm, postrm)
\* raised ends with the filesystem, the tables and the result that the
\* same command has when every hook returns.
C21_HookFailuresSuppressed ==
    [][last'.raised # {} => <<fs', db', last'.res>> = last'.quiet]_vars

\* an install of B went through although both of its hooks raised
C21_Witness ==
    /\ InstallReturned(last)
    /\ last.raised = {"preinst", "postinst"}
    /\ last.ran = <<"preinst", "postinst">>
    /\ has_pkg(db, last.pkg)

\* C22: the exception that leaves a failed install is the one that was
\* raised first inside it, whether the failure came before or after the
\* registry transaction was begun.
C22_ErrorResurfaced ==
    [][InstallRaised(last') => last'.res = last'.cause]_vars

\* how a remove ends that raised before its journal was opened
RefusedFirst ==
    {"ValueError: repo prefix", "invalid registry entry", "ValueError: invalid hooks file"}

\* remove raised after its journal was opened
RemoveRaised(l) == l.op = "remove" /\ l.res \notin RefusedFirst \cup {"ok"}

\* C23: a remove that raises after its journal was opened (pushing the
\* RmFile and RmTree actions, fetching the dirs rows, rm_pkg) leaves every
\* file the registry holds for the package, and the package's registry
\* metadata directory, as they were, and the package's rows unchanged.
C23_RemoveRollback ==
    [][RemoveRaised(last') =>
        /\ \A r \in pkg_files_installed(db, last'.pkg) :
               r.fpath \in DOMAIN fs => r.fpath \in DOMAIN fs' /\ fs'[r.fpath] = fs[r.fpath]
        /\ \A p \in Under(fs, pkg_registry \o <<last'.pkg>>) :
               p \in DOMAIN fs' /\ fs'[p] = fs[p]
        /\ RowsOf(db', last'.pkg) = RowsOf(db, last'.pkg)]_vars

Unloadable(f, p) == ~is_file(f, p) \/ f[p].data = "junk"

\* the package's registry metadata directory is missing, is not a
\* directory, or its info.yml or manifest.yml cannot be loaded
EntryInvalid(f, name) ==
    \/ ~is_dir(f, pkg_registry \o <<name>>)
    \/ Unloadable(f, pkg_registry \o <<name, "info.yml">>)
    \/ Unloadable(f, pkg_registry \o <<name, "manifest.yml">>)

\* C25: a remove of a package whose registry entry is missing, is not a
\* directory or cannot be loaded raises before any hook is called and
\* leaves the filesystem and the registry unchanged.
C25_InvalidEntryRefused ==
    [][(last'.op = "remove" /\ last'.repo = "None" /\ EntryInvalid(fs, last'.pkg)) =>
        /\ last'.res = "invalid registry entry"
        /\ last'.ran = <<>>
        /\ fs' = fs /\ db' = db]_vars

\* the entry of the package named was there, with a manifest that does
\* not load
C25_Witness ==
    /\ last.op = "remove" /\ last.res = "invalid registry entry"
    /\ is_dir(fs, pkg_registry \o <<last.pkg>>)
    /\ is_file(fs, pkg_registry \o <<last.pkg, "manifest.yml">>)

\* C26: after init_db has run, the tables pkgs, files and dirs and the
\* index on files(pkg) exist, and a run of init_db that follows another
\* changes neither the schema nor the rows.
C26_InitDbComplete ==
    [][last'.op = "init_db" =>
        /\ {"pkgs", "files", "dirs"} \subseteq db'.tables
        /\ db'.index
        /\ last.op = "init_db" => db' = db]_vars

\* C32: conflict enumeration yields exactly the paths of
\* manifest.file_checksums that exist on the host as regular files, in the
\* manifest's iteration order; a path that is a directory on the host is
\* never reported as a conflict, so none is ever put to the user.
C32_ConflictsAreRegularFiles ==
    [][last'.op = "install" =>
        /\ install_conflicts(fs, Archive(last'.pkg, last'.arc))
             = SelectSeq(Archive(last'.pkg, last'.arc).keys, LAMBDA p : is_file(fs, p))
        /\ \A p \in last'.keep \cup last'.over : is_file(fs, p)]_vars

\* C34: in a successful install the registry COMMIT is executed before the
\* first journal apply() is attempted, and an apply() that raises after the
\* COMMIT does not undo the registry rows: nothing is rolled back and the
\* package stays recorded.
C34_CommitBeforeApply ==
    [][last'.op = "install" /\ last'.res = "ok" =>
        /\ \E k \in 1..Len(last'.events) :
              /\ last'.events[k] = "commit"
              /\ \A m \in 1..Len(last'.events) :
                    last'.events[m] \in {"apply", "apply raised"} => k < m
        /\ "rollback" \notin Range(last'.events)
        /\ has_pkg(db', last'.pkg)
        /\ db.pkgs \subseteq db'.pkgs]_vars

\* a successful install in which an apply() raised after the commit
C34_Witness ==
    /\ last.op = "install" /\ last.res = "ok"
    /\ "commit" \in Range(last.events)
    /\ "apply raised" \in Range(last.events)
    /\ has_pkg(db, last.pkg)

\* the entries of directory p
Entries(f, p) == {q \in DOMAIN f : q # p /\ Parent(q) = p}

\* C36: a failed install never deletes or renames a directory that existed
\* before the install began: every such directory is still a directory at
\* its path after the rollback, and those that are also in the payload
\* (shared with the host or with other packages) have the entries they
\* had before, each of the kind it was.
C36_FailedInstallKeepsDirs ==
    [][InstallRaised(last') =>
        \A p \in DOMAIN fs :
            is_dir(fs, p) =>
                /\ is_dir(fs', p)
                /\ (\E m \in Range(Archive(last'.pkg, last'.arc).members) : m.path = p) =>
                      /\ Entries(fs', p) = Entries(fs, p)
                      /\ \A q \in Entries(fs, p) : fs'[q].kind = fs[q].kind]_vars

\* a failed install into a directory that already had an entry, after the
\* install had put its own files there
C36_Witness ==
    /\ InstallRaised(last)
    /\ "revert" \in Range(last.events)
    /\ is_dir(fs, PD) /\ Entries(fs, PD) # {}

\* C37: ownership transfer survives the removal of the previous owner: a
\* file that the registry gives to another package (as after B was
\* installed overwriting a file of A) is neither deleted nor modified when
\* A is removed, and which_pkg_owns_file still names the other package.
C37_OwnershipTransferSurvives ==
    [][last'.op = "remove" /\ RemoveReturned(last') =>
        \A r \in db.files :
            r.pkg # last'.pkg /\ has_pkg(db, last'.pkg) /\ is_file(fs, r.fpath) =>
                /\ is_file(fs', r.fpath)
                /\ fs'[r.fpath] = fs[r.fpath]
                /\ which_pkg_owns_file(db', r.fpath) = r.pkg]_vars

\* A was installed on a host without /d/a, B was installed over A's /d/a,
\* and A has now been removed
C37_Witness ==
    /\ last.n = 3 /\ last.op = "remove" /\ last.pkg = "A" /\ RemoveReturned(last)
    /\ ~exists(snap, PA)
    /\ is_file(fs, PA) /\ fs[PA].data = "b1"
    /\ which_pkg_owns_file(db, PA) = "B"
    /\ ~has_pkg(db, "A")

\* a file the registry records for the package is no longer on the host
TrackedMissing(f, d, pkg) == \E r \in pkg_files_installed(d, pkg) : ~exists(f, r.fpath)

\* C38: remove of a package one of whose tracked files no longer exists:
\* remove raises, every tracked file already moved aside is back under its
\* original name (the filesystem is as it was, the registry metadata
\* directory included) and no registry row is deleted.
C38_RemoveMissingFile ==
    [][(/\ last'.op = "remove" /\ last'.repo = "None"
        /\ registry_entry_ok(fs, last'.pkg)
        /\ TrackedMissing(fs, db, last'.pkg)) =>
            /\ RemoveRaised(last')
            /\ fs' = fs
            /\ is_dir(fs', pkg_registry \o <<last'.pkg>>)
            /\ db' = db]_vars

\* remove of B raised after one of its two files had been moved aside: the
\* other one is missing, the one moved is back
C38_Witness ==
    /\ last.op = "remove" /\ last.pkg = "B" /\ RemoveRaised(last)
    /\ "revert" \in Range(last.events)
    /\ TrackedMissing(fs, db, "B")
    /\ \E r \in pkg_files_installed(db, "B") : is_file(fs, r.fpath)
    /\ is_dir(fs, pkg_registry \o <<"B">>)

-----------------------------------------------------------------------------
(* The build command: main.py build, impl/pkg.py lookup, impl/pkgbuild.py  *)

\* the package names given on the command line, as split at "/"
PkgNames ==
    {<<"vim">>, <<"ports", "vim">>, <<"extra", "vim">>, <<"nope", "vim">>,
     <<"", "vim">>, <<"a", "b", "vim">>}

\* cfg.repos: the configured repositories, in the order of the configuration
RepoOrders == {<<"ports", "extra">>, <<"extra", "ports">>}

\* what lookup hands back: a PkgDir, None, or the exception raised
Looked(kind, repo, name) == [kind |-> kind, repo |-> repo, name |-> name]

\* PkgName.from_str: None is "None", the empty string is ""
from_str(pkgname) ==
    IF Len(pkgname) \notin {1, 2}
    THEN [err |-> "InvalidPackageNameError", repo |-> "None", name |-> ""]
    ELSE IF Len(pkgname) = 2
    THEN [err |-> "", repo |-> pkgname[1], name |-> pkgname[2]]
    ELSE [err |-> "", repo |-> "None", name |-> pkgname[1]]

\* Config.repo_from_name
repo_from_name(repos, repo_name) ==
    IF \E i \in 1..Len(repos) : repos[i] = repo_name THEN repo_name ELSE "None"

\* BaseRepo.repo_dir: the repository's directory under the repos directory
repo_dir(repo) == <<"repos", repo>>

\* the recipe trees: each <repos>/<repo>/vim is absent, a package directory,
\* or a directory PkgDirPath rejects
Shelves ==
    [{repo_dir(r) \o <<"vim">> : r \in {"ports", "extra"}} -> {"absent", "pkg", "junk"}]

\* get_pkg_dir
get_pkg_dir(shelf, pkg, repo) ==
    IF ~(repo_dir(repo) \o <<pkg>> \in DOMAIN shelf
         /\ shelf[repo_dir(repo) \o <<pkg>>] # "absent")
    THEN Looked("None", "", "")
    ELSE IF shelf[repo_dir(repo) \o <<pkg>>] = "junk"
    THEN Looked("ValidationError", "", "")
    ELSE Looked("PkgDir", repo, pkg)

\* lookup, unqualified: for repo in cfg.repos, from the i-th on
RECURSIVE lookup_each(_, _, _, _)
lookup_each(repos, shelf, name, i) ==
    IF i > Len(repos) THEN Looked("None", "", "")
    ELSE IF get_pkg_dir(shelf, name, repos[i]).kind # "None"
    THEN get_pkg_dir(shelf, name, repos[i])
    ELSE lookup_each(repos, shelf, name, i + 1)

\* lookup
lookup(repos, shelf, pkg) ==
    IF pkg.repo \notin {"None", ""}
    THEN IF repo_from_name(repos, pkg.repo) = "None"
         THEN Looked("RepoNotFoundError", pkg.repo, "")
         ELSE get_pkg_dir(shelf, pkg.name, repo_from_name(repos, pkg.repo))
    ELSE lookup_each(repos, shelf, pkg.name, 1)

\* walk: the paths under root, relative to it
walk(root, include_dirs) ==
    {p \in DOMAIN root : include_dirs \/ root[p].kind = "file"}

\* Path.is_absolute
is_absolute(path) == path # <<>> /\ path[1] = "/"

\* root_path / file; joining an absolute path gives that path
Abs(p) == IF is_absolute(p) THEN p ELSE <<"/">> \o p

\* the options PkgManifestStat requires of a stat entry
StatOpts == {"user", "group", "mode"}

\* set_stat, lines 188-192: a path the map does not hold is given an empty
\* entry before anything is tested
with_entry(perms, path) ==
    IF path \in DOMAIN perms THEN perms ELSE (path :> {}) @@ perms

\* PkgBuildSteps.set_stat(path, user, group, mode) on the stat map perms,
\* given being the options passed with a value
set_stat(perms, dest_dir, path, given) ==
    IF is_absolute(path) \/ path \notin DOMAIN dest_dir
    THEN [perms |-> with_entry(perms, path), raised |-> TRUE]
    ELSE [perms |-> [with_entry(perms, path) EXCEPT ![path] = @ \cup given],
          raised |-> FALSE]

\* the top-level members of the archive once files/ and info.yml are added
Added(files) == {"info.yml"} \cup IF files = <<>> THEN {} ELSE {"files"}

\* makepkg has not run (res "-"), or it left by sys.exit(1) or by an
\* exception inside `with tarfile.open(dest, "w:xz") as tar`: the file at
\* dest is then there (written) with the members added up to that point
\* (names), which are files/ and info.yml; no manifest was made
NoArchive(res, unpermed, files) ==
    [res |-> res, unpermed |-> unpermed, files |-> <<>>, info |-> <<>>,
     manifest |-> PkgManifest(<<>>, <<>>),
     written |-> res # "-",
     names |-> IF res = "-" THEN {} ELSE Added(files)]

\* makepkg, the package root already rid of info.yml and manifest.yml and
\* then given the new info.yml
makepkg_in(info, files, pkg_root, perms) ==
    IF (walk(pkg_root, TRUE) \ {<<"info.yml">>}) \ DOMAIN perms # {}
    THEN NoArchive("exit 1", (walk(pkg_root, TRUE) \ {<<"info.yml">>}) \ DOMAIN perms, files)
    ELSE IF \E k \in DOMAIN perms : perms[k] # StatOpts
    THEN \* PkgManifestStat(**v) lacks a required field
         NoArchive("ValidationError", {}, files)
    ELSE [res |-> "ok", unpermed |-> {}, files |-> files, info |-> info,
          written |-> TRUE,
          names |-> Added(files) \cup {"manifest.yml"},
          manifest |-> PkgManifest(
              [k \in {Abs(p) : p \in walk(pkg_root, FALSE)} |-> sha256sum(pkg_root[Tail(k)].data)],
              [k \in {Abs(p) : p \in DOMAIN perms} |-> PkgManifestStat("root", "root", DefaultFileMode)])]

\* makepkg
makepkg(info, pkg_root, perms) ==
    makepkg_in(info,
               Without(pkg_root, {<<"info.yml">>, <<"manifest.yml">>}),
               (<<"info.yml">> :> File(info, DefaultFileMode, RootUid, RootGid))
                   @@ Without(pkg_root, {<<"info.yml">>, <<"manifest.yml">>}),
               perms)

\* what recipe.install may leave in the destdir
DestTree(tree) ==
    IF tree = "empty" THEN <<>>
    ELSE IF tree = "dir" THEN <<"bin">> :> Dir(DefaultDirMode, RootUid, RootGid)
    ELSE (<<"bin">> :> Dir(DefaultDirMode, RootUid, RootGid))
         @@ (<<"bin", "vim">> :> File("elf", DefaultFileMode, RootUid, RootGid))
         @@ IF tree = "stale"
            THEN (<<"info.yml">> :> File("old", DefaultFileMode, RootUid, RootGid))
                 @@ (<<"manifest.yml">> :> File("old", DefaultFileMode, RootUid, RootGid))
            ELSE <<>>

DestTrees == {"empty", "dir", "file", "stale"}

\* the paths recipe.install may have passed to set_stat
PermKeys == {<<"bin">>, <<"bin", "vim">>, <<"opt">>}

\* the paths of the set_stat call that is looked at: those and an absolute one
StatPaths == PermKeys \cup {<<"/", "bin">>}

\* no set_stat call has been looked at
NoCall == [path |-> <<>>, raised |-> FALSE, before |-> <<>>]

\* source.sha256 when it is None or the empty string, which the truth tests
\* of prepare_step do not tell apart; also file_checksum = None
NoSha == <<>>

\* the content the source's checksum is of, and another content
Contents == {"tarball", "other"}

\* prepare_step, HTTP branch, lines 54-57: dst is what build_dir holds under
\* the file's name ("absent" or its content); fetched counts the downloads
http_start(dst) ==
    [dst |-> dst, download |-> FALSE, file_checksum |-> NoSha, fetched |-> 0, raised |-> ""]

\* lines 59-66: a cached file is hashed if a checksum is given and unlinked
\* if it differs; a missing file is to be downloaded
http_cached(s, sha256) ==
    IF s.dst # "absent" /\ sha256 # NoSha
    THEN IF sha256sum(s.dst) # sha256
         THEN [s EXCEPT !.file_checksum = sha256sum(s.dst), !.dst = "absent",
                        !.download = TRUE]
         ELSE [s EXCEPT !.file_checksum = sha256sum(s.dst)]
    ELSE IF s.dst = "absent" THEN [s EXCEPT !.download = TRUE]
    ELSE s

\* fetch_with_progress: one urlretrieve, which stores what the server sends
\* or raises
fetch_with_progress(s, served) ==
    IF served = "error"
    THEN [s EXCEPT !.fetched = @ + 1, !.raised = "URLError"]
    ELSE [s EXCEPT !.fetched = @ + 1, !.dst = served]

\* lines 68-71
http_download(s, served) ==
    IF s.download THEN fetch_with_progress([s EXCEPT !.file_checksum = NoSha], served)
    ELSE s

\* http_verify without the verification
http_verify_skipped(s, sha256) == s

\* lines 73-77: file_checksum = file_checksum or sha256sum(dst), and the
\* RuntimeError if it differs from source.sha256
http_verify(s, sha256) ==
    IF s.raised # "" \/ sha256 = NoSha THEN s
    ELSE IF sha256 # (IF s.file_checksum # NoSha THEN s.file_checksum ELSE sha256sum(s.dst))
    THEN [s EXCEPT !.raised = "RuntimeError"]
    ELSE s

\* prepare_step for one PkgHttpSource
prepare_step(dst, sha256, served) ==
    http_verify(http_download(http_cached(http_start(dst), sha256), served), sha256)

\* prepare_step has not run, or what it did is no longer looked at
NoSource == [ran |-> FALSE, sha256 |-> NoSha, had |-> "absent", got |-> http_start("absent")]

\* the recipe steps build runs besides pkg_version and install, and what follows each
Steps == [prepare |-> "pkg_version", depends |-> "build", build |-> "check", check |-> "install"]

BInit ==
    /\ fs = Host("empty")
    /\ jr = <<>>
    /\ jopen = FALSE
    /\ jout = NoExit
    /\ snap = fs
    /\ db = init_db
    /\ last = Ran(0, "init", "-", "-", "ok", {}, {})
    /\ \E pkgname \in PkgNames, repos \in RepoOrders, shelf \in Shelves :
         bld = [pc |-> "lookup", pkgname |-> pkgname, repos |-> repos, shelf |-> shelf,
                found |-> Looked("-", "", ""), version |-> "None", ver |-> "-",
                ran |-> <<>>, dest |-> <<>>, perms |-> <<>>, call |-> NoCall,
                src |-> NoSource,
                out |-> NoArchive("-", {}, <<>>)]

\* main.py build, up to the call of pkgbuild.build, and the start of build:
\* PkgInfo.from_yaml reads info.version, which a recipe may leave out
BLookup ==
    /\ bld.pc = "lookup"
    /\ \E version \in {"None", "1.0"} :
         bld' = IF from_str(bld.pkgname).err # ""
                THEN [bld EXCEPT !.pc = "failed",
                                 !.found = Looked(from_str(bld.pkgname).err, "", "")]
                ELSE [bld EXCEPT
                        !.found = lookup(bld.repos, bld.shelf, from_str(bld.pkgname)),
                        !.pc = IF lookup(bld.repos, bld.shelf, from_str(bld.pkgname)).kind = "PkgDir"
                               THEN "sources" ELSE "failed",
                        !.version = IF lookup(bld.repos, bld.shelf, from_str(bld.pkgname)).kind = "PkgDir"
                                    THEN version ELSE @]
    /\ UNCHANGED <<fs, jr, jopen, jout, snap, db, last>>

\* build, lines 175-181: with clean the build directory is removed first;
\* prepare_step then acquires the HTTP source of the recipe
BPrepareStep ==
    /\ bld.pc = "sources"
    /\ \E clean \in BOOLEAN, had \in Contents \cup {"absent"},
          sha256 \in {NoSha, sha256sum("tarball")}, served \in Contents \cup {"error"} :
         /\ clean => had = "absent"
         \* the server is not asked unless a download is made
         /\ ~http_cached(http_start(had), sha256).download => served = "tarball"
         /\ bld' = [bld EXCEPT
                      !.src = [ran |-> TRUE, sha256 |-> sha256, had |-> had,
                               got |-> prepare_step(had, sha256, served)],
                      !.pc = IF prepare_step(had, sha256, served).raised # ""
                             THEN "failed" ELSE "load"]
    /\ UNCHANGED <<fs, jr, jopen, jout, snap, db, last>>

\* build, lines 184-192: the build script is loaded and must export a Build
\* class; the sources are not looked at from here on
BLoad ==
    /\ bld.pc = "load"
    /\ \E ok \in BOOLEAN :
         bld' = [bld EXCEPT !.src = NoSource,
                            !.pc = IF ok THEN "prepare" ELSE "failed"]
    /\ UNCHANGED <<fs, jr, jopen, jout, snap, db, last>>

\* build: one of recipe.prepare, depends, build, check, which may raise
BRecipe(step) ==
    /\ bld.pc = step
    /\ \E ok \in BOOLEAN :
         bld' = [bld EXCEPT !.ran = Append(@, step),
                            !.pc = IF ok THEN Steps[step] ELSE "failed"]
    /\ UNCHANGED <<fs, jr, jopen, jout, snap, db, last>>

\* build: version = recipe.pkg_version(...); if version: info.version = version
BPkgVersion ==
    /\ bld.pc = "pkg_version"
    /\ \E ver \in {"None", "", "2.0"} :
         bld' = [bld EXCEPT !.ran = Append(@, "pkg_version"),
                            !.ver = ver,
                            !.version = IF ver \notin {"None", ""} THEN ver ELSE @,
                            !.pc = "depends"]
    /\ UNCHANGED <<fs, jr, jopen, jout, snap, db, last>>

\* build: recipe.install fills the destdir and the stat map (an entry may
\* be for a path that install has since removed)
BInstall ==
    /\ bld.pc = "install"
    /\ \E tree \in DestTrees, perms \in SUBSET PermKeys :
         bld' = [bld EXCEPT !.ran = Append(@, "install"),
                            !.dest = DestTree(tree),
                            !.perms = [k \in perms |-> StatOpts],
                            !.pc = "set_stat"]
    /\ UNCHANGED <<fs, jr, jopen, jout, snap, db, last>>

\* one more set_stat call of recipe.install, the last one; install returns
\* after it if the call returned or the recipe caught what it raised
BSetStat ==
    /\ bld.pc = "set_stat"
    /\ \E path \in StatPaths, given \in {StatOpts, {"mode"}}, caught \in BOOLEAN :
         bld' = [bld EXCEPT
                   !.perms = set_stat(bld.perms, bld.dest, path, given).perms,
                   !.call = [path |-> path, before |-> bld.perms,
                             raised |-> set_stat(bld.perms, bld.dest, path, given).raised],
                   !.pc = IF set_stat(bld.perms, bld.dest, path, given).raised /\ ~caught
                          THEN "failed" ELSE "makepkg"]
    /\ UNCHANGED <<fs, jr, jopen, jout, snap, db, last>>

\* build: makepkg(info, pkg_dir, dest_dir, build.stat, pkg_dest)
BMakepkg ==
    /\ bld.pc \in {"set_stat", "makepkg"}
    /\ bld' = [bld EXCEPT !.ran = Append(@, "makepkg"),
                          !.out = makepkg([name |-> bld.found.name, version |-> bld.version],
                                          bld.dest, bld.perms),
                          !.pc = IF makepkg([name |-> bld.found.name, version |-> bld.version],
                                            bld.dest, bld.perms).res = "ok"
                                 THEN "done" ELSE "failed"]
    /\ UNCHANGED <<fs, jr, jopen, jout, snap, db, last>>

BNext ==
    \/ BLookup
    \/ BPrepareStep
    \/ BLoad
    \/ \E step \in DOMAIN Steps : BRecipe(step)
    \/ BPkgVersion
    \/ BInstall
    \/ BSetStat
    \/ BMakepkg

SpecBuild == BInit /\ [][BNext]_vars

-----------------------------------------------------------------------------
(* Root-directory discovery: one command-line invocation after another,    *)
(* each a new process with the --root-dir flag and the LEPORT_ROOT          *)
(* environment variable it is given ("None": not given). disk is the set    *)
(* of root directories that hold config.yml, repos, pkgs and data; the      *)
(* config.yml files have no `root` key, like the one init writes.           *)

RootDirs == {"/opt/leport", "/env", "/srv"}

Commands == {"init", "install", "build"}

\* config.py line 11: LEPORT_ROOT = Path(os.environ.get("LEPORT_ROOT", "/opt/leport"))
LEPORT_ROOT(env) == IF env = "None" THEN "/opt/leport" ELSE env

\* config.py: state = {} of a new process; err is what ended the process
NoState == [LEPORT_ROOT |-> "unset", config |-> "unset", err |-> ""]

\* set_leport_root(root)
set_leport_root(st, env, root) ==
    IF st.LEPORT_ROOT # "unset" THEN [st EXCEPT !.err = "RuntimeError"]
    ELSE [st EXCEPT !.LEPORT_ROOT = IF root = "None" THEN LEPORT_ROOT(env) ELSE root]

\* get_leport_root(), which leaves its value in state
get_leport_root(st, env) ==
    IF st.LEPORT_ROOT = "unset" THEN set_leport_root(st, env, LEPORT_ROOT(env)) ELSE st

\* Config(**config_data) for a config.yml without a root key, or for no
\* config.yml at all: root is the default_factory's Path(LEPORT_ROOT), and
\* check_config_dir wants config.yml, repos, pkgs and data under it
Config(env, disk) ==
    IF LEPORT_ROOT(env) \in disk THEN [root |-> LEPORT_ROOT(env), err |-> ""]
    ELSE [root |-> "unset", err |-> "ValidationError"]

\* load_config(): state["LEPORT_ROOT"] / "config.yml" is read if it exists,
\* and a ValidationError is printed and ends the process with status 1
load_config(st, env, disk) ==
    IF st.err # "" THEN st
    ELSE IF st.config # "unset" THEN [st EXCEPT !.err = "RuntimeError"]
    ELSE IF Config(env, disk).err # "" THEN [st EXCEPT !.err = "exit 1"]
    ELSE [st EXCEPT !.config = Config(env, disk).root]

\* main.py _pre_command: every command but init sets the root and loads
\* the config
pre_command(st, cmd, flag, env, disk) ==
    IF cmd # "init" THEN load_config(set_leport_root(st, env, flag), env, disk) ELSE st

\* a new process
Invocation(cmd, flag, env, disk) ==
    [pc |-> "callback", cmd |-> cmd, flag |-> flag, env |-> env, disk |-> disk,
     state |-> NoState]

RInit ==
    /\ fs = Host("empty")
    /\ jr = <<>>
    /\ jopen = FALSE
    /\ jout = NoExit
    /\ snap = fs
    /\ db = init_db
    /\ last = Ran(0, "init", "-", "-", "ok", {}, {})
    /\ \E cmd \in Commands, flag \in {"None", "/srv", "/env"}, env \in {"None", "/env", "/srv"} :
         bld = Invocation(cmd, flag, env, {})

\* the typer callback runs before the command
PreCommand ==
    /\ bld.pc = "callback"
    /\ bld' = [bld EXCEPT
                 !.state = pre_command(bld.state, bld.cmd, bld.flag, bld.env, bld.disk),
                 !.pc = IF pre_command(bld.state, bld.cmd, bld.flag, bld.env, bld.disk).err # ""
                        THEN "exited" ELSE "command"]
    /\ UNCHANGED <<fs, jr, jopen, jout, snap, db, last>>

\* leport init: root = get_leport_root(); after the confirmation the
\* directories and config.yml are made under root, then load_config()
InitCommand ==
    /\ bld.pc = "command"
    /\ bld.cmd = "init"
    /\ \E go \in BOOLEAN :
         bld' = IF ~go
                THEN [bld EXCEPT !.state = get_leport_root(bld.state, bld.env),
                                 !.pc = "exited"]
                ELSE [bld EXCEPT
                        !.disk = @ \cup {get_leport_root(bld.state, bld.env).LEPORT_ROOT},
                        !.state = load_config(
                                      get_leport_root(bld.state, bld.env), bld.env,
                                      bld.disk \cup {get_leport_root(bld.state, bld.env).LEPORT_ROOT}),
                        !.pc = "exited"]
    /\ UNCHANGED <<fs, jr, jopen, jout, snap, db, last>>

\* any other command works under get_config().root
RunCommand ==
    /\ bld.pc = "command"
    /\ bld.cmd # "init"
    /\ bld' = [bld EXCEPT !.pc = "exited"]
    /\ UNCHANGED <<fs, jr, jopen, jout, snap, db, last>>

\* the next invocation, on the disk the earlier ones left
Invoke ==
    /\ bld.pc = "exited"
    /\ \E cmd \in Commands, flag \in {"None", "/srv", "/env"}, env \in {"None", "/env", "/srv"} :
         bld' = Invocation(cmd, flag, env, bld.disk)
    /\ UNCHANGED <<fs, jr, jopen, jout, snap, db, last>>

RNext == PreCommand \/ InitCommand \/ RunCommand \/ Invoke

SpecRoot == RInit /\ [][RNext]_vars

-----------------------------------------------------------------------------
(* Properties of the build command, checked under SpecBuild *)

\* makepkg has run
Packaged(b) == b.pc \in {"done", "failed"} /\ "makepkg" \in Range(b.ran)

\* the destdir paths makepkg is to package, files and directories
DestdirPaths(b) == DOMAIN Without(b.dest, {<<"info.yml">>, <<"manifest.yml">>})

\* C27: makepkg requires the destdir paths (files and directories) to equal
\* the key set of the stat map: when they are equal packaging goes through,
\* and a destdir path without a stat entry, as well as a stat entry for a
\* path not in the destdir, makes packaging fail with an error that lists
\* the offending paths.
C27_StatMapEqualsDestdir ==
    Packaged(bld) =>
        /\ DestdirPaths(bld) = DOMAIN bld.perms => bld.out.res = "ok"
        /\ DestdirPaths(bld) # DOMAIN bld.perms =>
             /\ bld.out.res # "ok"
             /\ (DestdirPaths(bld) \ DOMAIN bld.perms) \cup (DOMAIN bld.perms \ DestdirPaths(bld))
                    \subseteq bld.out.unpermed

\* C28: every manifest makepkg writes satisfies M1 and describes exactly the
\* payload: the keys of file_checksums are the regular files of the
\* archive's files/ tree, each prefixed with "/"; every such key has an
\* entry in stat; and neither info.yml nor manifest.yml of the destdir root
\* is in the payload or in the manifest.
C28_ManifestDescribesPayload ==
    Packaged(bld) /\ bld.out.res = "ok" =>
        /\ DOMAIN bld.out.manifest.file_checksums
             = {Abs(p) : p \in walk(bld.out.files, FALSE)}
        /\ DOMAIN bld.out.manifest.file_checksums \subseteq DOMAIN bld.out.manifest.stat
        /\ {<<"info.yml">>, <<"manifest.yml">>} \cap DOMAIN bld.out.files = {}
        /\ {Abs(<<"info.yml">>), Abs(<<"manifest.yml">>)}
             \cap (DOMAIN bld.out.manifest.file_checksums \cup DOMAIN bld.out.manifest.stat) = {}

\* C29: the build never runs recipe.depends, nor any later step, nor
\* packaging, with a null version: when the recipe's info.yml has no version
\* and recipe.pkg_version returns null, the build fails before depends; and
\* a non-null value returned by pkg_version is the version of the archive.
C29_VersionBeforeDepends ==
    /\ "depends" \in Range(bld.ran) => bld.version # "None"
    /\ bld.out.res = "ok" /\ bld.ver # "None" => bld.out.info.version = bld.ver

\* the repository holds a package directory of that name
Contains(b, repo, name) ==
    /\ repo_dir(repo) \o <<name>> \in DOMAIN b.shelf
    /\ b.shelf[repo_dir(repo) \o <<name>>] = "pkg"

\* the first configured repository that holds the package, if any
FirstWith(b, name) ==
    IF \E i \in 1..Len(b.repos) : Contains(b, b.repos[i], name)
    THEN Looked("PkgDir",
                b.repos[CHOOSE i \in 1..Len(b.repos) :
                          /\ Contains(b, b.repos[i], name)
                          /\ \A j \in 1..(i - 1) : ~Contains(b, b.repos[j], name)],
                name)
    ELSE Looked("None", "", "")

\* C30: unqualified lookup returns the package directory from the first
\* repository, in configured order, that contains the package, and none if
\* no repository contains it; qualified lookup (repo/pkg) consults only the
\* named repository and raises RepoNotFoundError when no configured
\* repository has that name.
C30_Lookup ==
    bld.found.kind \notin {"-", "InvalidPackageNameError"} =>
        IF Len(bld.pkgname) = 1
        THEN bld.found = FirstWith(bld, bld.pkgname[1])
        ELSE IF bld.pkgname[1] \notin Range(bld.repos)
        THEN bld.found.kind = "RepoNotFoundError"
        ELSE /\ bld.found.kind = "PkgDir" <=> Contains(bld, bld.pkgname[1], bld.pkgname[2])
             /\ bld.found.kind = "PkgDir" => bld.found.repo = bld.pkgname[1]

\* C39: when makepkg fails because a destdir path has no stat entry, no
\* package archive is left at the destination path: after a build a file
\* at pkgs/<repo>/<name>.xz exists only if it is a complete archive, one
\* that holds info.yml and manifest.yml.
C39_NoPartialArchive ==
    Packaged(bld) =>
        /\ bld.out.res # "ok" => ~bld.out.written
        /\ bld.out.written => {"info.yml", "manifest.yml"} \subseteq bld.out.names

\* C40: a rejected set_stat leaves the stat map unchanged: when set_stat
\* raises because the path is absolute or does not exist under dest_dir,
\* the recipe's stat map has the same keys and values as before the call.
C40_RejectedSetStatChangesNothing ==
    bld.call.raised => bld.perms = bld.call.before

\* the file in build_dir hashes to the checksum
Hashes(dst, sha256) == dst # "absent" /\ sha256sum(dst) = sha256

\* C35: for an HTTP source with sha256 set, prepare_step makes at most one
\* download per invocation: none when a cached file with the matching
\* checksum exists, one when the file is absent or the cached checksum
\* differs; it returns only if the file in build_dir hashes to sha256 and
\* raises otherwise; a source without sha256 is downloaded only when the
\* file is absent.
C35_HttpSource ==
    bld.src.ran =>
        /\ bld.src.got.fetched \in {0, 1}
        /\ bld.src.got.fetched = 0 <=>
             IF bld.src.sha256 # NoSha THEN Hashes(bld.src.had, bld.src.sha256)
             ELSE bld.src.had # "absent"
        /\ bld.src.sha256 # NoSha =>
             (bld.src.got.raised = "" <=> Hashes(bld.src.got.dst, bld.src.sha256))
        /\ bld.pc = "failed" <=> bld.src.got.raised # ""

\* a cached file with another checksum was unlinked and downloaded again,
\* once, and the new file passed
C35_Witness ==
    /\ bld.src.ran
    /\ bld.src.sha256 # NoSha
    /\ bld.src.had = "other"
    /\ bld.src.got.fetched = 1
    /\ bld.src.got.dst = "tarball"
    /\ bld.pc = "load"

-----------------------------------------------------------------------------
(* Properties of root-directory discovery, checked under SpecRoot *)

\* the root directory the priority order names
Discovered(b) ==
    IF b.flag # "None" THEN b.flag
    ELSE IF b.env # "None" THEN b.env
    ELSE "/opt/leport"

\* C31: for every command, the root directory used to locate config.yml,
\* and the root of the loaded Config, is the --root-dir flag value when
\* given, otherwise the LEPORT_ROOT environment variable when set,
\* otherwise /opt/leport.
C31_RootDiscovery ==
    /\ bld.state.LEPORT_ROOT # "unset" => bld.state.LEPORT_ROOT = Discovered(bld)
    /\ bld.state.config # "unset" => bld.state.config = Discovered(bld)

====
